---------------------------- MODULE MCErrorInjection ---------------------------
(* Instances of ErrorInjection for TLC: the environments with each kind of *)
(* value for each variable, and some with several variables set.           *)
EXTENDS ErrorInjection

CONSTANTS main, child1

NoOverrides == [rate |-> Unset, seed |-> Unset, drop |-> Unset, flip |-> Unset]

CommandRates == {-1, 0, 1}

Lists == {Unset, << >>, <<-1>>, <<2>>, <<1, Junk, 2>>, <<3, 1>>}

SomeEnvironments ==
    {[NoOverrides EXCEPT !.rate = r, !.drop = d, !.flip = f] :
        r \in {Unset, 2}, d \in Lists, f \in {Unset, << >>, <<2>>}}
    \cup {[NoOverrides EXCEPT !.rate = r, !.seed = s] : r \in {Junk, -1}, s \in {Junk, 7}}

NoEnvironment == {NoOverrides}

FlipLists == {[NoOverrides EXCEPT !.flip = f] : f \in {<<2>>, <<1, Junk, 2>>, <<3, 1>>}}
================================================================================
