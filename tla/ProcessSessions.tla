-------------------------- MODULE ProcessSessions --------------------------
(***************************************************************************)
(* What the process lifecycle and scheduler promise (spec.md 4.3, 4.4):    *)
(* each terminal owns a stack of processes, root (its base shell) first;   *)
(* only the active terminal's top process acts; it may start a child with *)
(* a pid nobody holds, or exit, which pops it or, for a root, replaces it  *)
(* with a fresh shell; the timer moves to the next terminal in ring order, *)
(* starting a shell there if it has none.  A pid is held by at most one    *)
(* process of one terminal.                                                *)
(***************************************************************************)
EXTENDS Integers, Sequences

CONSTANTS Pids, TermCount

Terminals == 0 .. TermCount - 1

VARIABLES session, active

vars == << session, active >>

Held == UNION { { session[t][i] : i \in 1 .. Len(session[t]) } : t \in Terminals }
Free == Pids \ Held

Init ==
    /\ session = [t \in Terminals |-> << >>]
    /\ active = 0

\* the active terminal's top process starts a child
Spawn ==
    /\ session[active] /= << >>
    /\ \E p \in Free : session' = [session EXCEPT ![active] = Append(@, p)]
    /\ UNCHANGED active

\* the top process exits: back to its parent, or a fresh root shell
Exit ==
    /\ session[active] /= << >>
    /\ IF Len(session[active]) > 1
       THEN session' = [session EXCEPT ![active] = SubSeq(@, 1, Len(@) - 1)]
       ELSE \E p \in Free \cup {session[active][1]} :
               session' = [session EXCEPT ![active] = << p >>]
    /\ UNCHANGED active

\* the timer gives the CPU to the next terminal, which gets a shell if empty
Rotate ==
    LET next == (active + 1) % TermCount IN
    /\ active' = next
    /\ IF session[next] = << >>
       THEN \E p \in Free : session' = [session EXCEPT ![next] = << p >>]
       ELSE UNCHANGED session

Next == Spawn \/ Exit \/ Rotate

Spec == Init /\ [][Next]_vars /\ WF_vars(Rotate)

(* No pid is held twice, within a terminal or across terminals.           *)
PidsUnique ==
    \A t, u \in Terminals : \A i \in 1 .. Len(session[t]), j \in 1 .. Len(session[u]) :
        session[t][i] = session[u][j] => t = u /\ i = j

=============================================================================
