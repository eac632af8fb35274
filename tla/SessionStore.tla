---------------------------- MODULE SessionStore ----------------------------
(***************************************************************************)
(* What the control plane promises about sessions, their runs and          *)
(* messages. A message gets its place after all the messages of its        *)
(* session when it is stored, and keeps it; a list shows the messages that *)
(* are there in the order of their places. In the dictionaries and lists   *)
(* of InMemoryControlPlaneRepository a message is there at once; in a      *)
(* table the ones that are stored together may appear in any order, so a   *)
(* list may grow between two of its messages, but not above a message that *)
(* was there before the new one was begun.                                 *)
(***************************************************************************)
EXTENDS RunStatuses, Naturals, Sequences

CONSTANTS Sessions, Runs

VARIABLES
    sessions,          \* the sessions that exist
    runs,              \* the status of each run, "none" before it is created
    messages,          \* per session, its messages in the order of their places
    listed,            \* per session, the places of the messages that are there
    channel_messages   \* the runs that came through channels and are recorded so

Message == [role : {"user", "assistant"}, run : Runs]

chat == <<messages, listed>>
vars == <<sessions, runs, chat, channel_messages>>

Init ==
    /\ sessions = {}
    /\ runs = [r \in Runs |-> "none"]
    /\ messages = [s \in Sessions |-> <<>>]
    /\ listed = [s \in Sessions |-> {}]
    /\ channel_messages = {}

CreateAgentSession(s) ==
    /\ sessions' = sessions \cup {s}
    /\ UNCHANGED <<runs, chat, channel_messages>>

CreateRun(r) ==
    /\ runs[r] = "none"
    /\ runs' = [runs EXCEPT ![r] = "queued"]
    /\ UNCHANGED <<sessions, chat, channel_messages>>

UpdateRun(r) ==
    /\ runs[r] # "none"
    /\ \E status \in RunStatus : runs' = [runs EXCEPT ![r] = status]
    /\ UNCHANGED <<sessions, chat, channel_messages>>

\* The message is there at once, or not yet.
AppendAgentMessage(s) ==
    /\ \E m \in Message : messages' = [messages EXCEPT ![s] = Append(@, m)]
    /\ \/ UNCHANGED listed
       \/ listed' = [listed EXCEPT ![s] = @ \cup {Len(messages[s]) + 1}]
    /\ UNCHANGED <<sessions, runs, channel_messages>>

ListMessage(s) ==
    /\ \E n \in DOMAIN messages[s] : listed' = [listed EXCEPT ![s] = @ \cup {n}]
    /\ UNCHANGED <<sessions, runs, messages, channel_messages>>

RecordChannelMessage(r) ==
    /\ channel_messages' = channel_messages \cup {r}
    /\ UNCHANGED <<sessions, runs, chat>>

Next ==
    \/ \E s \in Sessions : CreateAgentSession(s) \/ AppendAgentMessage(s) \/ ListMessage(s)
    \/ \E r \in Runs : CreateRun(r) \/ UpdateRun(r) \/ RecordChannelMessage(r)

Spec == Init /\ [][Next]_vars

=============================================================================
