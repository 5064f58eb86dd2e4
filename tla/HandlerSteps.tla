---------------------------- MODULE HandlerSteps ----------------------------
(***************************************************************************)
(* The vocabulary of the handlers of the node processors.  A handler is a  *)
(* short straight program in one try block: it finds its page, reads,      *)
(* waits, acts, asks a service, and builds an answer.  What a handler is   *)
(* here is the sequence of its calls that can fail or have an effect, each *)
(* with what the code does when the call fails.                            *)
(***************************************************************************)
EXTENDS Naturals, Sequences

\* By default the except branch of the handler answers status "error".
On(kind) == [kind |-> kind, fails |-> "error", sees |-> TRUE]

Page == On("page")       \* ui_manager.get_page: no such page raises
Look == On("look")       \* reads the page, a file, a reply
Holds == On("holds")     \* the condition the node waits for or verifies
Check == On("check")     \* a decision on the configuration that may refuse it
Act == On("act")         \* changes the page, a file, another system
Ask == On("ask")         \* a request whose reply may say that it failed
Reply == On("reply")     \* only now the reply of an Unread request is looked at
Save == On("save")       \* context.set_variable, or a variable changed in place
Never == On("never")     \* a call that raises whatever its arguments are
Omitted == On("omitted") \* what the node is for is not called, or not awaited

\* Kept in a list of the processor object.  ProcessorFactory.get_processor
\* makes a new object for every node, so no later node finds it.
Forgotten == Omitted

Try(step) == [step EXCEPT !.fails = "next"]      \* a failure is swallowed
Raising(step) == [step EXCEPT !.fails = "raise"] \* outside the try, or raised again
Unread(step) == [step EXCEPT !.sees = FALSE]     \* what the reply says is not looked at

\* One page, one call on it: most handlers.
ActOnPage == <<Page, Act>>
LookAtPage == <<Page, Look>>
HoldsOnPage == <<Page, Holds>>
VerifyOnPage == <<Page, Look, Holds>>
ActAndLook == <<Page, Act, Look>>

\* The operations of two tables.
f ++ g == [o \in DOMAIN f \cup DOMAIN g |-> IF o \in DOMAIN f THEN f[o] ELSE g[o]]

\* A loop over items of the configuration: two of them stand for any number.
Twice(steps) == steps \o steps
=============================================================================
