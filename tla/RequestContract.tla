-------------------------- MODULE RequestContract --------------------------
(***************************************************************************)
(* What the request subsystem promises its clients, with no mention of     *)
(* semaphores, correlation ids, reader threads or registry records:        *)
(* admitted requests wait in one line, are executed in that order, at most *)
(* MaxConcurrent at a time, and each ends once, with one outcome.  A       *)
(* request whose cancellation is accepted while it waits is dropped from   *)
(* the line and is never executed.                                         *)
(***************************************************************************)
EXTENDS Naturals, Sequences, FiniteSets

CONSTANTS
  Requests,       (* the requests clients may ever submit                  *)
  MaxConcurrent   (* how many requests may be executing on Bloomberg       *)

VARIABLES
  line,       (* admitted requests that have not started, oldest first     *)
  withdrawn,  (* waiting requests whose cancellation was accepted          *)
  executing,  (* requests being executed on Bloomberg                      *)
  outcome,    (* outcome[r]: how r ended, or "NONE"                        *)
  answer      (* answer[r]: the outcome reported by r's own call, or "NONE"*)

contractVars == <<line, withdrawn, executing, outcome, answer>>

Outcomes == {"COMPLETED", "FAILED", "TIMED_OUT", "CANCELLED"}

Init ==
  /\ line = << >>
  /\ withdrawn = {}
  /\ executing = {}
  /\ outcome = [r \in Requests |-> "NONE"]
  /\ answer = [r \in Requests |-> "NONE"]

InLine(r) == \E i \in DOMAIN line : line[i] = r

Join(r) ==
  /\ ~InLine(r)
  /\ r \notin executing
  /\ outcome[r] = "NONE"
  /\ line' = Append(line, r)
  /\ UNCHANGED <<withdrawn, executing, outcome, answer>>

Withdraw(r) ==
  /\ InLine(r)
  /\ withdrawn' = withdrawn \cup {r}
  /\ UNCHANGED <<line, executing, outcome, answer>>

Start(r) ==
  /\ line # << >>
  /\ r = Head(line)
  /\ r \notin withdrawn
  /\ Cardinality(executing) < MaxConcurrent
  /\ line' = Tail(line)
  /\ executing' = executing \cup {r}
  /\ UNCHANGED <<withdrawn, outcome, answer>>

Drop(r) ==
  /\ line # << >>
  /\ r = Head(line)
  /\ r \in withdrawn
  /\ line' = Tail(line)
  /\ withdrawn' = withdrawn \ {r}
  /\ outcome' = [outcome EXCEPT ![r] = "CANCELLED"]
  /\ UNCHANGED <<executing, answer>>

End(r) ==
  /\ r \in executing
  /\ executing' = executing \ {r}
  /\ \E o \in Outcomes : outcome' = [outcome EXCEPT ![r] = o]
  /\ UNCHANGED <<line, withdrawn, answer>>

Answer(r) ==
  /\ outcome[r] # "NONE"
  /\ answer[r] = "NONE"
  /\ answer' = [answer EXCEPT ![r] = outcome[r]]
  /\ UNCHANGED <<line, withdrawn, executing, outcome>>

Next ==
  \E r \in Requests :
    Join(r) \/ Withdraw(r) \/ Start(r) \/ Drop(r) \/ End(r) \/ Answer(r)

Spec == Init /\ [][Next]_contractVars
=============================================================================
