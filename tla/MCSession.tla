------------------------------ MODULE MCSession ------------------------------
(* Four parts a session is made of that share no state: the MCP client,     *)
(* long-term memory, the conversation and tool calls.  An invariant of one  *)
(* of them is an invariant of all together exactly if it is one of that     *)
(* part, so each part runs by itself: the states are the sum of theirs, not *)
(* the product.                                                            *)
EXTENDS McpClient, MemoryStore, Conversation, ToolCalls, TLC

CONSTANTS docs, docsAgain, remote, search, edit, leader, mate

VARIABLE part \* the part that runs

(* The names of docs and docsAgain are the same once normalised; the first  *)
(* tool of docs and the first of remote get the same public name.          *)
MCNormalName == docs :> "a" @@ docsAgain :> "a" @@ remote :> "a__b"

MCPublicName ==
    [p \in Servers \X Offered |->
       CASE p[2] = search -> "a__b__c"
         [] p[1] = remote /\ p[2] = edit -> "a__b__d"
         [] p[1] # remote /\ p[2] = edit -> "a__e"]

(* Calls the model asks for: those that tell the paths apart.              *)
MCWanted ==
    leader :> {[tool |-> tool, args |-> "plain"] : tool \in Tools \ {"bash"}}
                \cup {[tool |-> "edit", args |-> "risky"],
                      [tool |-> "bash", args |-> "denied"],
                      [tool |-> "todo", args |-> "invalid"]}
      @@ mate :> {[tool |-> "edit", args |-> "risky"],
                  [tool |-> "external", args |-> "plain"],
                  [tool |-> "todo", args |-> "plain"]}

SessionInit ==
    /\ part \in {"mcp", "memory", "conversation", "tools"}
    /\ McpInit /\ MemoryInit /\ ConversationInit /\ ToolCallsInit

McpPart ==
    /\ part = "mcp" /\ McpNext
    /\ UNCHANGED <<memoryVars, conversationVars, toolVars>>

MemoryPart ==
    /\ part = "memory" /\ MemoryNext
    /\ UNCHANGED <<mcpVars, conversationVars, toolVars>>

ConversationPart ==
    /\ part = "conversation" /\ ConversationNext
    /\ UNCHANGED <<mcpVars, memoryVars, toolVars>>

ToolsPart ==
    /\ part = "tools" /\ ToolCallsNext
    /\ UNCHANGED <<mcpVars, memoryVars, conversationVars>>

SessionNext ==
    /\ McpPart \/ MemoryPart \/ ConversationPart \/ ToolsPart
    /\ UNCHANGED part

SessionSpec ==
    /\ SessionInit
    /\ [][SessionNext]_<<part, mcpVars, memoryVars, conversationVars, toolVars>>

(* Every part has its type.                                                *)
SessionTypeOK ==
    McpTypeOK /\ MemoryTypeOK /\ ConversationTypeOK /\ ToolCallsTypeOK
=============================================================================
