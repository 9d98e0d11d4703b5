------------------------------- MODULE ChatLog -------------------------------
(***************************************************************************)
(* What the chat history promises: a log of messages under ids that only    *)
(* grow, which loses messages to the retention policy and to nothing else.  *)
(* A restart of the server is invisible; a failure of the power takes the   *)
(* latest messages, but none that a flush of the file has made sure.        *)
(***************************************************************************)
EXTENDS Integers, Sequences

CONSTANTS
    MaxMsgs,    \* the retention limit, ChatHistoryMaxMessages
    LogIds,     \* the message ids, a set of naturals
    LogMsgs     \* the messages

VARIABLES log,        \* the messages kept, oldest first: [id, msg]
          lastId,     \* the highest id given, of the messages that survived
          sure,       \* ids of the messages in the log that a flush has covered
          hidden      \* ids whose message is shown as deleted

logVars == <<log, lastId, sure, hidden>>

IdsIn(s) == {s[i].id : i \in DOMAIN s}

LogInit == log = <<>> /\ lastId = 0 /\ sure = {} /\ hidden = {}

\* A message is stored under an id above all earlier ones.
Say(id, msg) ==
    /\ id > lastId
    /\ log' = Append(log, [id |-> id, msg |-> msg])
    /\ lastId' = id
    /\ UNCHANGED <<sure, hidden>>

\* The oldest messages go once there are too many, down to the limit.
Retain ==
    /\ Len(log) > MaxMsgs
    /\ log' = SubSeq(log, Len(log) - MaxMsgs + 1, Len(log))
    /\ sure' = sure \cap IdsIn(log')
    /\ UNCHANGED <<lastId, hidden>>

Hide(id) == hidden' = hidden \cup {id} /\ UNCHANGED <<log, lastId, sure>>

Flush == sure' = IdsIn(log) /\ UNCHANGED <<log, lastId, hidden>>

\* The latest messages are lost, and their ids may be given again.
PowerFailure ==
    \E n \in 0 .. Len(log) :
        /\ log' = SubSeq(log, 1, n)
        /\ sure \subseteq IdsIn(log')
        /\ lastId' = IF n = 0 THEN 0 ELSE log[n].id
        /\ UNCHANGED <<sure, hidden>>

LogNext ==
    \/ \E id \in LogIds, msg \in LogMsgs : Say(id, msg)
    \/ Retain \/ Flush \/ PowerFailure
    \/ \E id \in LogIds : Hide(id)

LogSpec == LogInit /\ [][LogNext]_logVars
=============================================================================
