------------------------------ MODULE RemoteCall ------------------------------
(***************************************************************************)
(* What the administrator is promised about a management command that      *)
(* crosses vpn_controller, admin_agent and admin_server: it runs at most   *)
(* once, an error that says it was not accepted is true forever, an answer *)
(* of the server means that this very command has run, and in every other  *)
(* case the outcome is unknown: the command may run even later.            *)
(***************************************************************************)
EXTENDS Naturals

CONSTANT Calls      \* the commands of the administrator

VARIABLES verdict,  \* verdict[r]: what the administrator has been told
          ran       \* the commands admin_server has executed

Verdicts == {"unasked", "waiting", "refused", "answered", "unknown"}

CallInit == /\ verdict = [r \in Calls |-> "unasked"]
            /\ ran = {}

Ask(r) == /\ verdict[r] = "unasked"
          /\ verdict' = [verdict EXCEPT ![r] = "waiting"]
          /\ UNCHANGED ran

(* Nothing listens: the command is refused as it is given.                  *)
TurnAway(r) == /\ verdict[r] = "unasked"
               /\ verdict' = [verdict EXCEPT ![r] = "refused"]
               /\ UNCHANGED ran

Run(r) == /\ verdict[r] \in {"waiting", "unknown"}
          /\ r \notin ran
          /\ ran' = ran \cup {r}
          /\ UNCHANGED verdict

Told(r, v) == /\ verdict[r] = "waiting"
              /\ v = "refused" => r \notin ran
              /\ v = "answered" => r \in ran
              /\ verdict' = [verdict EXCEPT ![r] = v]
              /\ UNCHANGED ran

CallNext == \E r \in Calls :
                \/ Ask(r)
                \/ TurnAway(r)
                \/ Run(r)
                \/ \E v \in {"refused", "answered", "unknown"} : Told(r, v)

CallSpec == CallInit /\ [][CallNext]_<<verdict, ran>>
=============================================================================
