------------------------------ MODULE ChatWidget ------------------------------
(***************************************************************************)
(* A ChatBaseWidget, the chat panel of the LLaMA node and of the Console   *)
(* node, as a record, and what each of its slots makes of it.  Sessions    *)
(* are kept in the order of the list; a message is a role and a text.  The *)
(* JSON tree, the captions of the list (rebuildSessionList gives each row  *)
(* the name of the active session) and the sampling parameters are left    *)
(* out.                                                                    *)
(***************************************************************************)
EXTENDS Integers, Sequences

CONSTANTS SessionIds,   \* the identifiers QUuid may come up with
          Texts,        \* what the user writes and the model answers
          Prompts       \* what the system prompt's editor may hold

DefaultPrompt == "You are a helpful assistant."

Message == [role : {"system", "user", "assistant"}, text : Texts \cup Prompts \cup {DefaultPrompt}]

Session == [id : SessionIds, messages : Seq(Message)]

NewSession(id) == [id |-> id, messages |-> <<>>]

(* row is the current row of the list, 0 for none; shown is the dialogue   *)
(* in the display.                                                         *)
Widget == [sessions : Seq(Session), active : SessionIds, row : Nat,
           prompt : Prompts, shown : Seq(Message)]

Ids(w) == {w.sessions[i].id : i \in DOMAIN w.sessions}

ActiveRows(w) == {i \in DOMAIN w.sessions : w.sessions[i].id = w.active}

getActiveMessages(w) ==
  IF ActiveRows(w) = {} THEN <<>> ELSE w.sessions[CHOOSE i \in ActiveRows(w) : TRUE].messages

setActiveSessionMessages(w, messages) ==
  [w EXCEPT !.sessions =
     [i \in DOMAIN @ |-> IF i \in ActiveRows(w) THEN [@[i] EXCEPT !.messages = messages] ELSE @[i]]]

(* What is said in a conversation, message by message.                     *)
Dialogue(messages) ==
  LET said[i \in 0 .. Len(messages)] ==
        IF i = 0 THEN <<>>
        ELSE IF messages[i].role = "system" THEN said[i - 1] ELSE Append(said[i - 1], messages[i])
  IN  said[Len(messages)]

loadChatDisplayFromSession(w) == [w EXCEPT !.shown = Dialogue(getActiveMessages(w))]

(* The list is filled with its signals blocked; making the active row      *)
(* current then runs onSessionChanged for that row.                        *)
rebuildSessionList(w) ==
  IF ActiveRows(w) = {} THEN [w EXCEPT !.row = 0]
  ELSE loadChatDisplayFromSession([w EXCEPT !.row = CHOOSE i \in ActiveRows(w) : TRUE])

ChatBaseWidget(id, prompt) ==
  rebuildSessionList([sessions |-> <<NewSession(id)>>, active |-> id, row |-> 0,
                      prompt |-> prompt, shown |-> <<>>])
-----------------------------------------------------------------------------
SystemMessage(w) ==
  [role |-> "system", text |-> IF w.prompt = "" THEN DefaultPrompt ELSE w.prompt]

ensureSystemMessage(w) == <<SystemMessage(w)>> \o Dialogue(getActiveMessages(w))

(* What onSendClicked stores and sends.                                    *)
Conversation(w, text) == Append(ensureSystemMessage(w), [role |-> "user", text |-> text])

onSendClicked(w, text) ==
  rebuildSessionList(setActiveSessionMessages(w, Conversation(w, text)))

(* The answer goes to the session that is active when it comes.            *)
addResponse(w, content) ==
  rebuildSessionList(setActiveSessionMessages(w,
    Append(getActiveMessages(w), [role |-> "assistant", text |-> content])))

onNewSessionClicked(w, id) ==
  rebuildSessionList([w EXCEPT !.sessions = Append(@, NewSession(id)), !.active = id])

Without(s, row) == [i \in 1 .. Len(s) - 1 |-> IF i < row THEN s[i] ELSE s[i + 1]]

(* Without the choice of another session.                                  *)
onDeleteSessionClickedMut(w) ==
  IF Len(w.sessions) <= 1 \/ w.row = 0 THEN w
  ELSE rebuildSessionList([w EXCEPT !.sessions = Without(@, w.row)])

onDeleteSessionClicked(w) ==
  LET left   == Without(w.sessions, w.row)
      newRow == IF w.row > Len(left) THEN Len(left) ELSE w.row
  IN  IF Len(w.sessions) <= 1 \/ w.row = 0 THEN w
      ELSE rebuildSessionList(
             [w EXCEPT !.sessions = left,
                       !.active = IF w.sessions[w.row].id = @ THEN left[newRow].id ELSE @])

onSessionChanged(w, row) ==
  loadChatDisplayFromSession([w EXCEPT !.row = row, !.active = w.sessions[row].id])

onClearHistoryClicked(w) == rebuildSessionList(setActiveSessionMessages(w, <<>>))

(* saveConfig, and loadConfig of it by a widget just made: a widget whose  *)
(* saved sessions are empty would start with one of its own, which         *)
(* saveConfig never writes.                                                *)
loadConfig(saved) ==
  rebuildSessionList([sessions |-> saved.sessions, active |-> saved.active, row |-> 0,
                      prompt |-> saved.prompt, shown |-> <<>>])
=============================================================================
