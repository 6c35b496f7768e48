---------------------------- MODULE CircuitBreaker ----------------------------
(***************************************************************************)
(* One circuit of CircuitBreakerService, kept in Redis: callers read it    *)
(* once, decide on that copy, and change it field by field.                *)
(*                                                                         *)
(* Time is what the code compares: whether the recovery time has passed    *)
(* since the circuit opened, and whether the key has been idle for its TTL *)
(* of 300 s, which is more than the recovery time and the longest call     *)
(* together.  lastFailureAt is only shown, and left out.                   *)
(*                                                                         *)
(* The actions speak of circuit and call alone: a module that composes     *)
(* them with a caller says what else changes.                              *)
(***************************************************************************)
EXTENDS Integers, Sequences, FiniteSets

CONSTANTS
  Caller,    \* those who may be inside execute
  Threshold, \* failures that open the circuit
  Limit,     \* probes a half-open circuit lets through
  MaxFlight  \* bound on the counters of probes

ASSUME BreakerConstantsOK ==
  /\ Threshold \in Nat \ {0}
  /\ Limit \in Nat \ {0}
  /\ MaxFlight \in Nat /\ MaxFlight >= Limit

VARIABLES
  circuit,   \* the Redis hash
  call       \* [Caller -> a call of execute]

breakerVars == <<circuit, call>>

(* The hash when there is none.                                              *)
Blank == [state |-> "CLOSED", failures |-> 0, inFlight |-> 0, completed |-> 0,
          openedAt |-> "unset"]

NoCall == [pc |-> "none", probe |-> FALSE, todo |-> <<>>]

BreakerInit ==
  /\ circuit = Blank
  /\ call = [c \in Caller |-> NoCall]

(* A caller that has not returned yet will change the circuit.               *)
InFlight(c) ==
  \/ call[c].pc \in {"before", "succeeding", "failing"}
  \/ call[c].pc = "called" /\ call[c].probe

-----------------------------------------------------------------------------
Capped(n) == IF n > MaxFlight THEN MaxFlight ELSE IF n < -MaxFlight THEN -MaxFlight ELSE n

(* One write to the hash.  Closing sets openedAt to "0", long past.          *)
Effect(u) ==
  CASE u = "half"     -> [circuit EXCEPT !.state = "HALF_OPEN"]
    [] u = "zero"     -> [circuit EXCEPT !.inFlight = 0, !.completed = 0]
    [] u = "enter"    -> [circuit EXCEPT !.inFlight = Capped(@ + 1)]
    [] u = "leave"    -> [circuit EXCEPT !.inFlight = Capped(@ - 1)]
    [] u = "complete" -> [circuit EXCEPT !.completed = Capped(@ + 1)]
    [] u = "count"    -> [circuit EXCEPT !.failures = IF @ < Threshold THEN @ + 1 ELSE @]
    [] u = "clear"    -> [circuit EXCEPT !.failures = 0]
    [] u = "open"     -> [circuit EXCEPT !.state = "OPEN"]
    [] u = "stamp"    -> [circuit EXCEPT !.openedAt = "now"]
    [] u = "close"    -> [Blank EXCEPT !.openedAt = "past"]

(* What a caller does next for what the write returned.                      *)
Consequence(c, u) ==
  CASE u = "count" /\ (call[c].probe \/ Effect(u).failures >= Threshold)
         -> <<"open", "stamp", "zero">>
    [] u = "complete" /\ Effect(u).completed >= Limit
         -> <<"close">>
    [] OTHER -> <<>>

After(pc) == CASE pc = "before" -> "called" [] pc = "succeeding" -> "returned"
               [] pc = "failing" -> "threw"

(* readCircuit, and the decision on that copy.  An OPEN circuit without a    *)
(* time counts as opened now.                                                *)
Shut ==
  \/ circuit.state = "OPEN" /\ circuit.openedAt # "past"
  \/ circuit.state = "HALF_OPEN" /\ circuit.inFlight >= Limit

Entered ==
  IF Shut THEN [NoCall EXCEPT !.pc = "rejected"]
  ELSE CASE circuit.state = "CLOSED"    -> [NoCall EXCEPT !.pc = "called"]
         [] circuit.state = "HALF_OPEN" -> [pc |-> "before", probe |-> TRUE,
                                            todo |-> <<"enter">>]
         [] circuit.state = "OPEN"      -> [pc |-> "before", probe |-> TRUE,
                                            todo |-> <<"half", "zero", "enter">>]

Enter(c) ==
  /\ call[c] = NoCall
  /\ call' = [call EXCEPT ![c] = Entered]
  /\ UNCHANGED circuit

Write(c) ==
  /\ call[c].todo # <<>>
  /\ LET u    == Head(call[c].todo)
         todo == Tail(call[c].todo) \o Consequence(c, u)
     IN /\ circuit' = Effect(u)
        /\ call' = [call EXCEPT ![c].todo = todo,
                                ![c].pc = IF todo = <<>> THEN After(@) ELSE @]

(* The guarded function succeeds or throws.                                  *)
Answer(c, ok) ==
  /\ call[c].pc = "called"
  /\ UNCHANGED circuit
  /\ call' = [call EXCEPT
       ![c].pc   = IF ok THEN "succeeding" ELSE "failing",
       ![c].todo = CASE call[c].probe /\ ok   -> <<"leave", "complete">>
                     [] call[c].probe /\ ~ok  -> <<"leave", "count">>
                     [] ~call[c].probe /\ ok  -> <<"clear">>
                     [] ~call[c].probe /\ ~ok -> <<"count">>]

(* The caller takes the result, or dies.                                     *)
Forget(c) == circuit' = circuit /\ call' = [call EXCEPT ![c] = NoCall]

(* The recovery time passes.                                                 *)
Elapse ==
  /\ circuit.openedAt = "now"
  /\ circuit' = [circuit EXCEPT !.openedAt = "past"]
  /\ UNCHANGED call

(* Mutant: the key of an open circuit does not expire.                       *)
ExpireClosed ==
  /\ circuit # Blank /\ circuit.state # "OPEN"
  /\ circuit.openedAt # "now"
  /\ \A c \in Caller : ~InFlight(c)
  /\ circuit' = Blank
  /\ UNCHANGED call

(* The key expires: nobody wrote to it for its TTL.                          *)
Expire ==
  /\ circuit # Blank
  /\ circuit.openedAt # "now"
  /\ \A c \in Caller : ~InFlight(c)
  /\ circuit' = Blank
  /\ UNCHANGED call

(* reset: an administrator closes the circuit, whatever state it is in.      *)
Reset ==
  /\ circuit' = Effect("close")
  /\ UNCHANGED call

-----------------------------------------------------------------------------
Update == {"half", "zero", "enter", "leave", "complete", "count", "clear", "open",
           "stamp", "close"}

BreakerTypeOK ==
  /\ circuit \in [state : {"CLOSED", "OPEN", "HALF_OPEN"}, failures : 0 .. Threshold,
                  inFlight : -MaxFlight .. MaxFlight, completed : -MaxFlight .. MaxFlight,
                  openedAt : {"unset", "now", "past"}]
  /\ call \in [Caller -> [pc : {"none", "before", "called", "succeeding", "failing",
                                "returned", "threw", "rejected"},
                          probe : BOOLEAN, todo : Seq(Update)]]
==============================================================================
