----------------------------- MODULE MCPoolLink -----------------------------
(* Small instances of the parts between socket and miners that do not      *)
(* share state: a behaviour is one of a single part, chosen in the initial *)
(* state, while the variables of the others keep their initial values.     *)
EXTENDS LineReader, LineWriter, JobData, ShareAccounts, RateWindow

VARIABLE part

TwoBytes == {"a", "b"}

JobParts1 == [j \in {"j1", "j2"} |-> IF j = "j1" THEN <<1>> ELSE <<0, 1>>]
JobParts2 == [j \in {"j1", "j2"} |-> IF j = "j1" THEN <<1>> ELSE <<0>>]
JobBranches == [j \in {"j1", "j2"} |-> IF j = "j1" THEN 0 ELSE 2]
SomeExtranonces == {<<0>>, <<1, 1>>}

PInit == /\ part \in {"reader", "writer", "job", "shares", "rates"}
         /\ RInit /\ WInit /\ JInit /\ AInit /\ HInit

PNext == /\ UNCHANGED part
         /\ \/ part = "reader" /\ RNext /\ UNCHANGED <<wvars, jvars, avars, hvars>>
            \/ part = "writer" /\ WNext /\ UNCHANGED <<rvars, jvars, avars, hvars>>
            \/ part = "job"    /\ JNext /\ UNCHANGED <<rvars, wvars, avars, hvars>>
            \/ part = "shares" /\ ANext /\ UNCHANGED <<rvars, wvars, jvars, hvars>>
            \/ part = "rates"  /\ HNext /\ UNCHANGED <<rvars, wvars, jvars, avars>>

PSpec == PInit /\ [][PNext]_<<rvars, wvars, jvars, avars, hvars, part>>
=============================================================================
