--------------------------- MODULE MCHidProtocol ---------------------------
(* An instance of HidProtocol for TLC: a few commands of one or two fans. *)
EXTENDS HidProtocol

TwoChannels == 1 .. 2

Low == <<[fan |-> 1, speed |-> 20], [fan |-> 2, speed |-> 20]>>
High == <<[fan |-> 2, speed |-> 90], [fan |-> 1, speed |-> 90]>>
Alone == <<[fan |-> 1, speed |-> 30]>>
Unlisted == <<[fan |-> 1, speed |-> 30], [fan |-> 3, speed |-> 30]>>
SomeCommands ==
    {[kind |-> "Init", batch |-> <<>>], [kind |-> "Colors", batch |-> Low]} \union
    {[kind |-> "Speeds", batch |-> b] : b \in {High, Alone, Unlisted}}

Next == (\E c \in SomeCommands : Begin(c)) \/ HidStep
Spec == HidInit /\ [][Next]_hidVars
FairSpec == Spec /\ HidFairness
=============================================================================
