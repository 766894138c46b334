------------------------------ MODULE ChatNodes ------------------------------
(***************************************************************************)
(* The LLaMA node and the Console node of the node editor, wired to each   *)
(* other or not: the chats, the requests that are under way over HTTP, the *)
(* connection to a server, and a server that the node runs itself.         *)
(* Everything runs in the GUI thread; the replies, the server's output and *)
(* its end come from the event loop in any order.  The debug tab, which    *)
(* shows whatever answer comes last, and the paths of the server are left  *)
(* out.                                                                    *)
(***************************************************************************)
EXTENDS ChatWidget, FiniteSets

CONSTANTS MaxMessages,   \* bound on the length of a session
          MaxRequests    \* bound on the requests under way

ASSUME ChatNodesAssumption == MaxMessages \in Nat /\ MaxRequests \in Nat /\ SessionIds # {} /\ Prompts # {}

VARIABLES
  chat,        \* the chat widget of each node
  out,         \* what the output port of each node holds: None or <<data>>
  wires,       \* "toModel" and "toConsole"
  requests,    \* the POST requests without a reply, in the order of sending
  m_processingInput,
  link,        \* m_connected, whether m_baseUrl is set, the Connect button
  health,      \* whether a reply to GET /health is awaited
  server       \* m_serverProcess and the Start button

chatVars == <<chat, out, wires, requests, m_processingInput, link, health, server>>

Nodes == {"llama", "console"}

None == <<>>

Disconnected == [connected |-> FALSE, based |-> FALSE, caption |-> "connect", enabled |-> TRUE]

Offline(l) == [l EXCEPT !.connected = FALSE, !.caption = "connect"]

Online(l) == [l EXCEPT !.connected = TRUE, !.caption = "disconnect"]

NoServer == [process |-> "none", caption |-> "start"]

ChatInit ==
  /\ \E id \in SessionIds, prompt \in Prompts : chat = [n \in Nodes |-> ChatBaseWidget(id, prompt)]
  /\ out = [n \in Nodes |-> None]
  /\ wires = {}
  /\ requests = <<>> /\ m_processingInput = FALSE
  /\ link = Disconnected /\ health = FALSE
  /\ server = NoServer

Room(w) == Len(getActiveMessages(w)) + 2 <= MaxMessages
-----------------------------------------------------------------------------
(* sendToModel: without a connection nothing is sent.  A request to no     *)
(* base URL is one that fails.                                             *)
sendToModel(messages, from) ==
  IF link.connected
  THEN /\ requests' = Append(requests, [messages |-> messages, from |-> from, based |-> link.based,
                                       overtaken |-> FALSE])
       /\ m_processingInput' = TRUE
  ELSE UNCHANGED <<requests, m_processingInput>>

(* LLamaModelDataModel::setInData: a question that comes while an answer   *)
(* is awaited is dropped.                                                  *)
setInData(data) ==
  IF data = None \/ m_processingInput THEN UNCHANGED <<requests, m_processingInput>>
  ELSE sendToModel(data[1], "input")

onLocalChatSend(text) ==
  /\ Room(chat["llama"]) /\ Len(requests) < MaxRequests
  /\ chat' = [chat EXCEPT !["llama"] = onSendClicked(@, text)]
  /\ sendToModel(Conversation(chat["llama"], text), "chat")
  /\ UNCHANGED <<out, wires, link, health, server>>

(* ConsoleDataModel::onSendClicked, and the node it is wired to.           *)
onConsoleSend(text) ==
  LET data == <<Conversation(chat["console"], text)>>
  IN  /\ Room(chat["console"]) /\ Len(requests) < MaxRequests
      /\ chat' = [chat EXCEPT !["console"] = onSendClicked(@, text)]
      /\ out' = [out EXCEPT !["console"] = data]
      /\ setInData(IF "toModel" \in wires THEN data ELSE None)
      /\ UNCHANGED <<wires, link, health, server>>

(* ConsoleDataModel::setInData.                                            *)
Received(w, data) == IF data = None THEN w ELSE addResponse(w, data[1])

(* overtaken is history: a reply to another request has come meanwhile.    *)
Overtaken(request) == [request EXCEPT !.overtaken = TRUE]

Answered(i) ==
  [j \in 1 .. Len(requests) - 1 |-> IF j < i THEN Overtaken(requests[j]) ELSE Overtaken(requests[j + 1])]

(* An answer is handed to the Console first, then to the chat that asked.  *)
ReplyWith(i, content) ==
  /\ requests[i].based /\ \A n \in Nodes : Room(chat[n])
  /\ requests' = Answered(i)
  /\ m_processingInput' = FALSE
  /\ out' = [out EXCEPT !["llama"] = <<content>>]
  /\ chat' = [n \in Nodes |->
                IF n = "console" THEN Received(chat[n], IF "toConsole" \in wires THEN <<content>> ELSE None)
                ELSE IF requests[i].from = "chat" THEN addResponse(chat[n], content) ELSE chat[n]]
  /\ UNCHANGED <<wires, link, health, server>>

(* With the flag cleared for an answer only.                               *)
ReplyWithoutMut(i) ==
  /\ requests' = Answered(i)
  /\ UNCHANGED <<chat, out, wires, m_processingInput, link, health, server>>

(* An error, or a reply with no content in it.                             *)
ReplyWithout(i) ==
  /\ requests' = Answered(i)
  /\ m_processingInput' = FALSE
  /\ UNCHANGED <<chat, out, wires, link, health, server>>
-----------------------------------------------------------------------------
(* The graph editor: a new wire delivers what its source holds, a deleted  *)
(* one nothing.                                                            *)
WireToModel ==
  /\ "toModel" \notin wires /\ Len(requests) < MaxRequests
  /\ wires' = wires \cup {"toModel"}
  /\ setInData(out["console"])
  /\ UNCHANGED <<chat, out, link, health, server>>

WireToConsole ==
  /\ "toConsole" \notin wires /\ Room(chat["console"])
  /\ wires' = wires \cup {"toConsole"}
  /\ chat' = [chat EXCEPT !["console"] = Received(@, out["llama"])]
  /\ UNCHANGED <<out, requests, m_processingInput, link, health, server>>

Unwire(wire) ==
  /\ wires' = wires \ {wire}
  /\ UNCHANGED <<chat, out, requests, m_processingInput, link, health, server>>

(* The user of one chat.                                                   *)
Edits(w) ==
  {onNewSessionClicked(w, id) : id \in SessionIds \ Ids(w)}
    \cup {onSessionChanged(w, row) : row \in DOMAIN w.sessions}
    \cup {[w EXCEPT !.prompt = prompt] : prompt \in Prompts}
    \cup {onDeleteSessionClicked(w), onClearHistoryClicked(w)}

EditChat(n) ==
  /\ \E w \in Edits(chat[n]) : chat' = [chat EXCEPT ![n] = w]
  /\ UNCHANGED <<out, wires, requests, m_processingInput, link, health, server>>

(* The graph is saved, closed and opened again.                            *)
Reopen ==
  /\ chat' = [n \in Nodes |-> loadConfig(chat[n])]
  /\ out' = [n \in Nodes |-> None]
  /\ requests' = <<>> /\ m_processingInput' = FALSE
  /\ link' = Disconnected /\ health' = FALSE
  /\ server' = NoServer
  /\ UNCHANGED wires
-----------------------------------------------------------------------------
onConnectClicked ==
  /\ link.enabled
  /\ IF link.connected
     THEN link' = Offline(link) /\ UNCHANGED health
     ELSE link' = [link EXCEPT !.based = TRUE, !.enabled = FALSE] /\ health' = TRUE
  /\ UNCHANGED <<chat, out, wires, requests, m_processingInput, server>>

checkHealth(ok) ==
  /\ health
  /\ link' = [(IF ok THEN Online(link) ELSE Offline(link)) EXCEPT !.enabled = TRUE]
  /\ health' = FALSE
  /\ UNCHANGED <<chat, out, wires, requests, m_processingInput, server>>

(* "stopping" is a process that outlived the wait for its end: it runs on. *)
Live == {"starting", "running", "stopping"}

Ended(s) == [s EXCEPT !.process = "over", !.caption = "start"]

StartServer ==
  /\ server.process \notin Live
  /\ server' = [server EXCEPT !.process = "starting"]
  /\ UNCHANGED <<chat, out, wires, requests, m_processingInput, link, health>>

(* onStartServerClicked again: terminate, and the wait of three seconds    *)
(* that the process outlives or not.  What it wrote is read meanwhile.     *)
StopServer ==
  /\ server.process \in Live
  /\ \E process \in {"stopping", "over"} : server' = [server EXCEPT !.process = process, !.caption = "start"]
  /\ \E based \in {link.based, TRUE} : link' = [Offline(link) EXCEPT !.based = based]
  /\ UNCHANGED <<chat, out, wires, requests, m_processingInput, health>>

ServerStarts ==
  /\ server.process = "starting"
  /\ server' = [server EXCEPT !.process = "running", !.caption = "stop"]
  /\ UNCHANGED <<chat, out, wires, requests, m_processingInput, link, health>>

(* QProcess reports a program that cannot be started by errorOccurred,     *)
(* which nothing is connected to.                                          *)
FailsToStart ==
  /\ server.process = "starting"
  /\ server' = [server EXCEPT !.process = "over"]
  /\ UNCHANGED <<chat, out, wires, requests, m_processingInput, link, health>>

(* "listening" on standard error says nothing of where.                    *)
ServerSpeaks(stream) ==
  /\ server.process \in {"running", "stopping"}
  /\ link' = [Online(link) EXCEPT !.based = @ \/ stream = "stdout"]
  /\ UNCHANGED <<chat, out, wires, requests, m_processingInput, health, server>>

ServerFinished ==
  /\ server.process \in {"running", "stopping"}
  /\ server' = Ended(server)
  /\ link' = Offline(link)
  /\ UNCHANGED <<chat, out, wires, requests, m_processingInput, health>>

ChatNext ==
  \/ \E text \in Texts : onLocalChatSend(text) \/ onConsoleSend(text)
  \/ \E i \in DOMAIN requests : ReplyWithout(i) \/ \E content \in Texts : ReplyWith(i, content)
  \/ WireToModel
  \/ WireToConsole
  \/ \E wire \in wires : Unwire(wire)
  \/ \E n \in Nodes : EditChat(n)
  \/ Reopen
  \/ onConnectClicked
  \/ \E ok \in BOOLEAN : checkHealth(ok)
  \/ StartServer
  \/ StopServer
  \/ ServerStarts
  \/ FailsToStart
  \/ \E stream \in {"stdout", "stderr"} : ServerSpeaks(stream)
  \/ ServerFinished

ChatSpec == ChatInit /\ [][ChatNext]_chatVars
-----------------------------------------------------------------------------
(* The type invariant.                                                     *)
ChatTypeOK ==
  /\ chat \in [Nodes -> Widget]
  /\ wires \subseteq {"toModel", "toConsole"}
  /\ m_processingInput \in BOOLEAN /\ health \in BOOLEAN
  /\ link \in [connected : BOOLEAN, based : BOOLEAN, caption : {"connect", "disconnect"}, enabled : BOOLEAN]
  /\ server \in [process : Live \cup {"none", "over"}, caption : {"start", "stop"}]

(* The list, the display and the store agree through sends, late answers,  *)
(* new, deleted, cleared and reloaded sessions: the active session exists, *)
(* its row is the current one, and the display shows its dialogue.         *)
DisplayIsActive ==
  \A n \in Nodes :
    /\ ActiveRows(chat[n]) = {chat[n].row}
    /\ chat[n].shown = Dialogue(getActiveMessages(chat[n]))

(* A request that is sent, or sent again because a wire was drawn anew, is *)
(* one conversation: the system prompt first and only there, and the       *)
(* user's question last, however often the prompt was changed.             *)
Whole(messages) ==
  /\ Len(messages) >= 2
  /\ \A i \in DOMAIN messages : messages[i].role = "system" <=> i = 1
  /\ messages[Len(messages)].role = "user"

RequestsAreWhole == \A i \in DOMAIN requests : Whole(requests[i].messages)

(* The node refuses its input from a request on until the first reply,     *)
(* whatever becomes of it: the flag outlives no request, and with two      *)
(* under way it is up just while one of them is younger than every reply.  *)
BusyUntilTheFirstReply ==
  m_processingInput <=> \E i \in DOMAIN requests : ~requests[i].overtaken

(* The captions of the buttons, with a server that may end, be stopped or  *)
(* speak while the health of another is awaited.  Connect says what a      *)
(* click does.  The server's button says Stop just while the server runs   *)
(* and was not told to stop: it says Start as well over a server that      *)
(* starts, or outlived a stop, and a click then ends that one.             *)
CaptionsFollow ==
  /\ link.caption = IF link.connected THEN "disconnect" ELSE "connect"
  /\ link.enabled = ~health
  /\ server.caption = "stop" <=> server.process = "running"

(* Requests, the flag that guards the input and the buttons agree with     *)
(* what is under way.                                                      *)
RequestsAreSound == RequestsAreWhole /\ BusyUntilTheFirstReply /\ CaptionsFollow

=============================================================================
