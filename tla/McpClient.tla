------------------------------ MODULE McpClient ------------------------------
(***************************************************************************)
(* The MCP client (mcp/): the lead connects configured servers and calls    *)
(* their tools.                                                             *)
(*                                                                          *)
(* A stdio server is a process that reads requests from a pipe and writes   *)
(* answers to another one, in whatever order, more than once or never; the  *)
(* client reads the answers from a queue that a thread fills, and waits for *)
(* a limited time.  An HTTP server answers within the exchange or not at all.  The    *)
(* lead has one call in progress (call); what a server offers is its own    *)
(* choice and may be badly formed.                                          *)
(***************************************************************************)
EXTENDS Naturals, Sequences, FiniteSets

CONSTANTS Servers,     \* configured servers
          Http,        \* those reached over HTTP, the others are processes
          NormalName,  \* NormalName[s]: the name of s in safe characters
          Offered,     \* tool names a server may offer
          PublicName,  \* PublicName[<<s, t>>]: mcp__<server>__<tool>
          Cursors,     \* cursors of further pages
          NoServer,    \* no server
          MaxCalls,    \* bound on the calls of the lead
          MaxQueue     \* bound on the messages in a queue

ASSUME McpAssumption ==
    /\ Http \subseteq Servers
    /\ NormalName \in [Servers -> STRING]
    /\ DOMAIN PublicName = Servers \X Offered
    /\ NoServer \notin Servers
    /\ MaxCalls \in Nat /\ MaxQueue \in Nat

VARIABLES
  connections, \* [server, tools]: what connecting has recorded
  registry,    \* [name, server, tool]: the MCP tools in the tool registry
  client,      \* client[s]: the client of server s
  alive,       \* alive[s]: its process runs
  nextId,      \* nextId[s]: the identifier of its next request
  asked,       \* asked[s]: the requests the server has been sent
  queue,       \* queue[s]: messages read from the server and not yet taken
  call,        \* the call in progress
  calls,       \* how many calls the lead has made
  answers      \* <<call, the call its answer was given to>>

mcpVars == <<connections, registry, client, alive, nextId, asked, queue, call,
             calls, answers>>

-----------------------------------------------------------------------------
Request == [id: Nat \ {0}, of: 1..MaxCalls]
Note    == [id |-> 0, of |-> 0]       \* a notification has no identifier
NoCall_ == [step |-> "none", server |-> NoServer, id |-> 0,
            found |-> <<>>, seen |-> {}]

Progress == [step: {"none", "initialize", "list", "call"},
             server: Servers \cup {NoServer}, id: Nat,
             found: Seq(Offered), seen: SUBSET Cursors]

\* A tool of a server, as the registry has it.
Entry(s, t) == [name |-> PublicName[<<s, t>>], server |-> s, tool |-> t]

McpTypeOK ==
    /\ connections \subseteq [server: Servers, tools: SUBSET Offered]
    /\ registry \subseteq {Entry(s, t) : s \in Servers, t \in Offered}
    /\ client \in [Servers -> {"none", "open", "closed"}]
    /\ alive \in [Servers -> BOOLEAN]
    /\ nextId \in [Servers -> Nat \ {0}]
    /\ asked \in [Servers -> SUBSET Request]
    /\ queue \in [Servers -> Seq(Request \cup {Note})]
    /\ call \in Progress
    /\ calls \in 0..MaxCalls
    /\ answers \subseteq (1..MaxCalls) \X (1..MaxCalls)

McpInit ==
    /\ connections = {}
    /\ registry = {}
    /\ client = [s \in Servers |-> "none"]
    /\ alive = [s \in Servers |-> FALSE]
    /\ nextId = [s \in Servers |-> 1]
    /\ asked = [s \in Servers |-> {}]
    /\ queue = [s \in Servers |-> <<>>]
    /\ call = NoCall_
    /\ calls = 0
    /\ answers = {}

-----------------------------------------------------------------------------
(* One request.                                                            *)

(* Requests of a client are numbered from one; the write fails when the    *)
(* process has gone.                                                       *)
NextId(s) == nextId[s] + 1

Send(s, of, step, found, seen) ==
    /\ call' = [step |-> step, server |-> s, id |-> nextId[s],
                found |-> found, seen |-> seen]
    /\ nextId' = [nextId EXCEPT ![s] = NextId(s)]
    /\ asked' = IF s \in Http THEN asked
                ELSE [asked EXCEPT ![s] = @ \cup {[id |-> nextId[s], of |-> of]}]

\* Mutant: a failed attempt to connect leaves its client open.
ClientLeftOpen(s) ==
    /\ UNCHANGED <<client, alive>>
    /\ asked' = [asked EXCEPT ![s] = {}]
    /\ queue' = [queue EXCEPT ![s] = <<>>]

(* A call that fails while it connects closes its client and ends its      *)
(* process; a failing tools/call leaves the connection as it is.           *)
CloseAfterFailure(s) ==
    /\ client' = [client EXCEPT ![s] = "closed"]
    /\ alive' = [alive EXCEPT ![s] = FALSE]
    /\ asked' = [asked EXCEPT ![s] = {}]
    /\ queue' = [queue EXCEPT ![s] = <<>>]

Fail(rest) ==
    /\ call' = NoCall_
    /\ IF call.step = "call"
         THEN /\ queue' = [queue EXCEPT ![call.server] = rest]
              /\ UNCHANGED <<client, alive, asked>>
         ELSE CloseAfterFailure(call.server)
    /\ UNCHANGED <<connections, registry, nextId, calls, answers>>

-----------------------------------------------------------------------------
(* The servers.                                                            *)

(* A process answers any request it has had: an earlier one after a later   *)
(* one, one it has answered before, and some perhaps never.                *)
ServerAnswers(s) ==
    /\ alive[s] /\ Len(queue[s]) < MaxQueue
    /\ \E request \in asked[s] :
          queue' = [queue EXCEPT ![s] = Append(@, request)]
    /\ UNCHANGED <<connections, registry, client, alive, nextId, asked, call,
                   calls, answers>>

ServerNotifies(s) ==
    /\ alive[s] /\ Len(queue[s]) < MaxQueue
    /\ queue' = [queue EXCEPT ![s] = Append(@, Note)]
    /\ UNCHANGED <<connections, registry, client, alive, nextId, asked, call,
                   calls, answers>>

ServerExits(s) ==
    /\ alive[s]
    /\ alive' = [alive EXCEPT ![s] = FALSE]
    /\ asked' = [asked EXCEPT ![s] = {}]
    /\ UNCHANGED <<connections, registry, client, nextId, queue, call, calls, answers>>

-----------------------------------------------------------------------------
(* connect_mcp.                                                            *)

ConnectionsNamed(name) == {c \in connections : NormalName[c.server] = name}

(* A server with this normalised name has been connected: what is known is *)
(* returned, whatever its process does now.                                *)
AlreadyConnected(s) ==
    /\ call = NoCall_ /\ calls < MaxCalls
    /\ ConnectionsNamed(NormalName[s]) # {}
    /\ calls' = calls + 1
    /\ UNCHANGED <<connections, registry, client, alive, nextId, asked, queue,
                   call, answers>>

(* A new process or HTTP client, and its first request.  Starting the      *)
(* process may fail; then there is no client to close.                     *)
Connect(s) ==
    /\ call = NoCall_ /\ calls < MaxCalls
    /\ ConnectionsNamed(NormalName[s]) = {}
    /\ calls' = calls + 1
    /\ \/ /\ client' = [client EXCEPT ![s] = "open"]
          /\ alive' = [alive EXCEPT ![s] = s \notin Http]
          /\ nextId' = [nextId EXCEPT ![s] = 2]
          /\ asked' = [asked EXCEPT ![s] =
                         IF s \in Http THEN {} ELSE {[id |-> 1, of |-> calls + 1]}]
          /\ queue' = [queue EXCEPT ![s] = <<>>]
          /\ call' = [step |-> "initialize", server |-> s, id |-> 1,
                      found |-> <<>>, seen |-> {}]
       \/ /\ s \notin Http
          /\ UNCHANGED <<client, alive, nextId, asked, queue, call>>
    /\ UNCHANGED <<connections, registry, answers>>

(* The names the tools get are all different and none is in the registry;  *)
(* then all are entered at once and the connection is recorded.            *)
Entries(s, found) == {Entry(s, found[i]) : i \in DOMAIN found}

NamesOf(entries) == {e.name : e \in entries}

Registrable(s, found) ==
    /\ Cardinality(NamesOf(Entries(s, found))) = Len(found)
    /\ NamesOf(Entries(s, found)) \cap NamesOf(registry) = {}

Register(s, found) ==
    /\ registry' = registry \cup Entries(s, found)
    /\ connections' = connections \cup
         {[server |-> s, tools |-> {found[i] : i \in DOMAIN found}]}
    /\ call' = NoCall_
    /\ UNCHANGED <<client, alive, nextId, asked, calls, answers>>

(* What follows a good answer: the list after the handshake, the next page *)
(* after a page with a new cursor, the registration after the last page.   *)
(* A page names a tool or none here, a cursor seen before ends the call.   *)
Pages == [tools: {<<>>} \cup {<<t>> : t \in Offered}, cursor: SUBSET Cursors]

Proceed(s, rest) ==
    \/ /\ call.step = "initialize"
       /\ Send(s, calls, "list", <<>>, {})
       /\ queue' = [queue EXCEPT ![s] = rest]
       /\ UNCHANGED <<connections, registry, client, alive, calls, answers>>
    \/ /\ call.step = "list"
       /\ \E page \in Pages :
            LET found == call.found \o page.tools IN
            \/ /\ page.cursor = {}
               /\ Registrable(s, found)
               /\ Register(s, found)
               /\ queue' = [queue EXCEPT ![s] = rest]
            \/ /\ page.cursor = {} /\ ~Registrable(s, found)
               /\ Fail(rest)
            \/ /\ Cardinality(page.cursor) = 1
               /\ page.cursor \cap call.seen = {}
               /\ Send(s, calls, "list", found, call.seen \cup page.cursor)
               /\ queue' = [queue EXCEPT ![s] = rest]
               /\ UNCHANGED <<connections, registry, client, alive, calls, answers>>
            \/ /\ Cardinality(page.cursor) = 1
               /\ page.cursor \subseteq call.seen
               /\ Fail(rest)

-----------------------------------------------------------------------------
(* A tool of a server.                                                     *)

(* The adapter calls the client it was registered with; a client that is   *)
(* closed or whose process has exited raises at once.                      *)
CallTool(name) ==
    /\ call = NoCall_ /\ calls < MaxCalls
    /\ \E e \in registry :
         /\ e.name = name
         /\ calls' = calls + 1
         /\ IF client[e.server] = "open" /\ (e.server \in Http \/ alive[e.server])
              THEN Send(e.server, calls + 1, "call", <<>>, {})
              ELSE UNCHANGED <<call, nextId, asked>>
    /\ UNCHANGED <<connections, registry, client, alive, queue, answers>>

(* The tool call returns what the message holds.                           *)
Return(s, message, rest) ==
    /\ call.step = "call"
    /\ answers' = answers \cup {<<calls, message.of>>}
    /\ call' = NoCall_
    /\ queue' = [queue EXCEPT ![s] = rest]
    /\ UNCHANGED <<connections, registry, client, alive, nextId, asked, calls>>

-----------------------------------------------------------------------------
(* Waiting for the answer.                                                 *)

\* Mutant: whatever comes next is taken for the answer.
AnyAnswer(message) == TRUE

IsAnswer(message) == message.id = call.id

(* The next message from the process: a notification is skipped; another   *)
(* identifier, an error or a malformed result ends the call, and the       *)
(* message is gone.                                                        *)
Read(s) ==
    LET message == Head(queue[s])
        rest    == Tail(queue[s])
    IN
    /\ call.step # "none" /\ call.server = s /\ s \notin Http
    /\ queue[s] # <<>>
    /\ \/ /\ message = Note
          /\ queue' = [queue EXCEPT ![s] = rest]
          /\ UNCHANGED <<connections, registry, client, alive, nextId, asked,
                         call, calls, answers>>
       \/ /\ message # Note /\ IsAnswer(message)
          /\ Proceed(s, rest) \/ Return(s, message, rest)
       \/ /\ message # Note
          /\ Fail(rest)

(* Nothing came in time, or the process has closed its output.  The answer *)
(* may still come and is then the first message of the next call.          *)
GiveUp(s) ==
    /\ call.step # "none" /\ call.server = s /\ s \notin Http
    /\ queue[s] = <<>>
    /\ Fail(<<>>)

(* An HTTP exchange: the message with the identifier of the request is     *)
(* picked from the body of the response, whatever else is in it; a status, *)
(* a body or a connection that is not as it should be ends the call.       *)
Exchange(s) ==
    /\ call.step # "none" /\ call.server = s /\ s \in Http
    /\ \/ Proceed(s, <<>>)
       \/ Return(s, [id |-> call.id, of |-> calls], <<>>)
       \/ Fail(<<>>)

(* The process of the lead ends, and with it all its clients.              *)
McpForget ==
    /\ connections' = {}
    /\ registry' = {}
    /\ client' = [s \in Servers |-> "none"]
    /\ alive' = [s \in Servers |-> FALSE]
    /\ nextId' = [s \in Servers |-> 1]
    /\ asked' = [s \in Servers |-> {}]
    /\ queue' = [s \in Servers |-> <<>>]
    /\ call' = NoCall_
    /\ UNCHANGED <<calls, answers>>

-----------------------------------------------------------------------------
BeginCall ==
    \/ \E s \in Servers : Connect(s) \/ AlreadyConnected(s)
    \/ \E name \in NamesOf(registry) : CallTool(name)

CallStep == \E s \in Servers : Read(s) \/ GiveUp(s) \/ Exchange(s)

ServerStep ==
    \E s \in Servers \ Http :
        ServerAnswers(s) \/ ServerNotifies(s) \/ ServerExits(s)

McpNext == BeginCall \/ CallStep \/ ServerStep \/ McpForget

McpSpec == McpInit /\ [][McpNext]_mcpVars

-----------------------------------------------------------------------------
(* Connecting is all or nothing (mcp/service.py:66-84): whenever no call   *)
(* is in progress, the servers with an open client are exactly those with  *)
(* a recorded connection, one for each normalised name; no failed attempt  *)
(* leaves a process; the tools in the registry are exactly those the       *)
(* connections name, and no name stands for two of them.                   *)
ConnectsWholly ==
    call = NoCall_ =>
        /\ \A s \in Servers :
              /\ client[s] = "open" <=> \E c \in connections : c.server = s
              /\ alive[s] => client[s] = "open"
        /\ \A c, d \in connections :
              NormalName[c.server] = NormalName[d.server] => c = d
        /\ registry = UNION {{Entry(c.server, t) : t \in c.tools} : c \in connections}
        /\ Cardinality(NamesOf(registry)) = Cardinality(registry)

(* What a tool call returns is what its server answered to this very call, *)
(* not the late answer to one given up before                              *)
(* (mcp/adapters/stdio_json_rpc.py:290), however often and in whatever     *)
(* order the server answers, after notifications and reconnections.        *)
OwnAnswer == \A a \in answers : a[1] = a[2]
=============================================================================
