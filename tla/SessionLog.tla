----------------------------- MODULE SessionLog -----------------------------
(* What the commits of a session promise for each of its messages: appended *)
(* messages are live, a commit takes live messages away, and what an archive *)
(* ends with is final, but that a second run of an archive may succeed after *)
(* the first has failed.  Nothing ever moves backwards, until a write of a   *)
(* cancelled call lands late: then nothing is promised any more.             *)
EXTENDS Naturals

CONSTANT Msg          \* message ids, in the order of their appends
VARIABLES place,      \* where each message is
          again,      \* messages of archives that run twice
          astray      \* whether a cancelled write has landed late

logvars == <<place, again, astray>>

Place == {"unsent", "live", "archived", "extracted", "dropped"}
Ended == {"extracted", "dropped"}

Init == place = [m \in Msg |-> "unsent"] /\ again = {} /\ astray = FALSE

\* Messages are appended one after the other.
Append ==
    \E m \in Msg :
        /\ place[m] = "unsent" /\ \A n \in Msg : place[n] = "unsent" => n >= m
        /\ place' = [place EXCEPT ![m] = "live"]

\* A commit takes messages out of the live file.  A message that an archive with
\* an outcome holds as well has that outcome at once.
Archive ==
    \E S \in SUBSET {m \in Msg : place[m] = "live"} :
        /\ S # {}
        /\ \E to \in [S -> {"archived"} \cup Ended] :
               place' = [m \in Msg |-> IF m \in S THEN to[m] ELSE place[m]]

\* An archive gets its outcome.
Settle ==
    \E e \in Ended :
        \E S \in SUBSET {m \in Msg : \/ place[m] = "archived"
                                     \/ place[m] = "dropped" /\ m \in again /\ e = "extracted"} :
            /\ S # {}
            /\ place' = [m \in Msg |-> IF m \in S THEN e ELSE place[m]]

\* The queue message of an archive is there twice.
Repeat == again \subseteq again' /\ again' \subseteq Msg /\ UNCHANGED <<place, astray>>

Stray == astray' = TRUE

Next == ((Append \/ Archive \/ Settle) /\ UNCHANGED <<again, astray>>) \/ Repeat \/ Stray
Spec == Init /\ [][Next]_logvars
=============================================================================
