---------------------------- MODULE Conversation ----------------------------
(***************************************************************************)
(* A conversation with the model (internal/claude/conversation.go): Send   *)
(* appends the user's message and then asks the API, executes the tools    *)
(* the answer names and asks again, until an answer names none or the      *)
(* budget of iterations is used up.  The history survives an error of      *)
(* Send, and the next Send goes on with it.                                *)
(*                                                                         *)
(* A message is its role, the tool calls it makes and the calls whose      *)
(* results it carries; the texts are left out.                             *)
(***************************************************************************)
EXTENDS Integers, Sequences, FiniteSets

CONSTANTS
    MaxIter,   \* maxIter, at least 1: NewConversation puts 20 for 0
    MaxTools,  \* bound: tool calls of one answer
    MaxSends   \* bound: calls of Send

ASSUME ConversationConstants == MaxIter \in Nat \ {0} /\ MaxTools \in Nat /\ MaxSends \in Nat

VARIABLES
    messages,  \* Conversation.messages
    phase,     \* what Send is doing: "idle", "ask", "tools"
    iteration, \* i of Send's loop
    todo,      \* the tool calls of the answer that are not executed yet
    results,   \* the calls that have a result block
    calls,     \* number of tool calls ever made: they are named by it
    sends      \* number of calls of Send

conversationVars == <<messages, phase, iteration, todo, results, calls, sends>>

UserMessage        == [role |-> "user", uses |-> {}, answers |-> {}]
ToolResults(done)  == [UserMessage EXCEPT !.answers = done]
Assistant(uses)    == [role |-> "assistant", uses |-> uses, answers |-> {}]

ConversationInit ==
    /\ messages = << >>
    /\ phase = "idle"
    /\ iteration = 0
    /\ todo = {} /\ results = {}
    /\ calls = 0 /\ sends = 0

Send ==
    /\ phase = "idle" /\ sends < MaxSends
    /\ sends' = sends + 1
    /\ messages' = Append(messages, UserMessage)
    /\ iteration' = 0
    /\ phase' = "ask"
    /\ UNCHANGED <<todo, results, calls>>

\* The request fails: Send returns, the message stays in the history.
RequestFails ==
    /\ phase = "ask"
    /\ phase' = "idle"
    /\ UNCHANGED <<messages, iteration, todo, results, calls, sends>>

\* Variant: only an answer that stopped for its tool calls is taken to have some.
ByStopReason(uses, stop) == IF stop = "tool_use" THEN uses ELSE {}

\* The tool calls are counted whatever the stop reason is: an answer cut at
\* max_tokens has them too.
ToolCalls(uses, stop) == uses

Answer(uses, stop) ==
    /\ calls' = calls + Cardinality(uses)
    /\ messages' = Append(messages, Assistant(uses))
    /\ todo' = ToolCalls(uses, stop)
    /\ results' = {}
    /\ phase' = IF ToolCalls(uses, stop) = {} THEN "idle" ELSE "tools"
    /\ UNCHANGED <<iteration, sends>>

ReceiveAnswer ==
    /\ phase = "ask"
    /\ \/ Answer({}, "end_turn")
       \/ \E n \in 1..MaxTools, stop \in {"tool_use", "max_tokens"} :
             Answer(calls + 1 .. calls + n, stop)

\* Variant: a call that failed gives no result block.
ResultUnlessFailed(call, ok) == IF ok THEN {call} ELSE {}

\* An error of the tool becomes the text of its result, marked is_error.
ResultOf(call, ok) == {call}

\* processToolCalls: the calls are executed in their order.
ExecuteTool ==
    /\ phase = "tools" /\ todo # {}
    /\ LET call == CHOOSE c \in todo : \A d \in todo : c <= d
       IN \E ok \in BOOLEAN :
             /\ results' = results \cup ResultOf(call, ok)
             /\ todo' = todo \ {call}
    /\ UNCHANGED <<messages, phase, iteration, calls, sends>>

\* The results are the next message; the loop ends with ErrMaxIterations when
\* the budget is used up.
ReturnResults ==
    /\ phase = "tools" /\ todo = {}
    /\ messages' = Append(messages, ToolResults(results))
    /\ iteration' = iteration + 1
    /\ phase' = IF iteration + 1 < MaxIter THEN "ask" ELSE "idle"
    /\ UNCHANGED <<todo, results, calls, sends>>

\* RestoreConversation with a state of SerializeConversation: the saved history
\* is a summary, of which restoreMessageHistory keeps nothing.  An empty
\* history is saved as no summary and restores nothing.
Restore ==
    /\ phase = "idle"
    /\ \E saved \in 0..Len(messages) :
          messages' = IF saved > 0 THEN << >> ELSE messages
    /\ UNCHANGED <<phase, iteration, todo, results, calls, sends>>

ConversationNext ==
    \/ Send \/ RequestFails \/ ReceiveAnswer \/ ExecuteTool \/ ReturnResults \/ Restore

ConversationSpec == ConversationInit /\ [][ConversationNext]_conversationVars

-----------------------------------------------------------------------------
\* Every history sent to the API answers each tool call the model made in the
\* very next message, and answers nothing else, whether tools or requests
\* failed, the answer was cut off or an earlier Send ran out of its budget
\* (conversation.go:60-139).  The API refuses any other history.
ToolCallsAnswered ==
    phase = "ask" =>
        \A i \in DOMAIN messages :
            LET asked == IF i = 1 THEN {} ELSE messages[i - 1].uses
            IN messages[i].answers = asked /\ (i = Len(messages) => messages[i].uses = {})

\* Known not to hold: an error leaves a user message last, and the next Send
\* puts another behind it.
RolesAlternate ==
    \A i \in 1 .. Len(messages) - 1 : messages[i].role # messages[i + 1].role
=============================================================================
