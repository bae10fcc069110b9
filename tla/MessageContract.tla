-------------------------- MODULE MessageContract --------------------------
(***************************************************************************)
(* What a sender is promised of a company email.  It goes out at most     *)
(* once and as it was submitted, not at all when it was withdrawn before  *)
(* the first attempt, and what the sender is told of it is final: sent    *)
(* only if it went out.  Queues, workers, redeliveries and the provider's *)
(* memory are invisible at this level.                                    *)
(***************************************************************************)
EXTENDS Integers

CONSTANT Messages

VARIABLES stage,      \* what the sender is told
          text,       \* version of the content
          begun,      \* a first attempt was made
          mailed,     \* how often it went out
          letters     \* the contents that went out

contractVars == <<stage, text, begun, mailed, letters>>

Init ==
    /\ stage = [m \in Messages |-> "draft"]
    /\ text = [m \in Messages |-> 0]
    /\ begun = [m \in Messages |-> FALSE]
    /\ mailed = [m \in Messages |-> 0]
    /\ letters = [m \in Messages |-> {}]

Edit(m) ==
    /\ stage[m] = "draft"
    /\ text' = [text EXCEPT ![m] = @ + 1]
    /\ UNCHANGED <<stage, begun, mailed, letters>>

\* What the sender is told changes, and nothing else.
Becomes(m, s) ==
    /\ stage' = [stage EXCEPT ![m] = s]
    /\ UNCHANGED <<text, begun, mailed, letters>>

Submit(m) == stage[m] = "draft" /\ Becomes(m, "underway")
Withdraw(m) == stage[m] \in {"draft", "underway"} /\ Becomes(m, "cancelled")

\* From here on the message may go out, whatever the sender does.
Begin(m) ==
    /\ stage[m] = "underway" /\ ~begun[m]
    /\ begun' = [begun EXCEPT ![m] = TRUE]
    /\ UNCHANGED <<stage, text, mailed, letters>>

GoOut(m) ==
    /\ begun[m] /\ mailed[m] = 0
    /\ mailed' = [mailed EXCEPT ![m] = 1]
    /\ letters' = [letters EXCEPT ![m] = {text[m]}]
    /\ UNCHANGED <<stage, text, begun>>

Confirm(m) == stage[m] = "underway" /\ mailed[m] = 1 /\ Becomes(m, "sent")
GiveUp(m) == stage[m] = "underway" /\ Becomes(m, "failed")

Next == \E m \in Messages :
    \/ Edit(m) \/ Submit(m) \/ Withdraw(m) \/ Begin(m)
    \/ GoOut(m) \/ Confirm(m) \/ GiveUp(m)

Spec == Init /\ [][Next]_contractVars
=============================================================================
