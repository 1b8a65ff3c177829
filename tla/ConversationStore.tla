-------------------------- MODULE ConversationStore --------------------------
(***************************************************************************)
(* The chat history of one user in the local store, and the requests that  *)
(* write it: the conversation routes and the chat turns of                 *)
(* src/backend/app/routes/v1_api.py over save_conversation, save_message,  *)
(* archive_empty_conversations, delete_workspace and cleanup_old_data of   *)
(* src/backend/app/local_storage/local_db.py.                              *)
(*                                                                         *)
(* A handler runs on the event loop and gives way only where it awaits: in *)
(* a chat turn while the context is built and the provider streams, before *)
(* the background task saves the answer, and while the provider writes a   *)
(* title.  What it read before is then a copy: the title is saved with the *)
(* whole row as it was.  Messages are counted; their text, and that of     *)
(* titles, is left out.                                                    *)
(***************************************************************************)
EXTENDS Integers

CONSTANTS
    Workspaces,
    Turns,          \* POST /v1/chat/completions with memory
    Studios,        \* generated turns the client saves itself, call by call
    None,           \* no workspace: a standalone chat
    MaxConvs,       \* bound: conversations, numbered as they are created
    KeepLast,       \* messages a cleanup leaves in an archived conversation
    MaxCleanups,    \* bound
    MaxFaults       \* bound: crashes and writes that fail

ASSUME StoreAssumption ==
    /\ None \notin Workspaces /\ None \notin Nat
    /\ Turns \cap Studios = {}
    /\ MaxConvs \in Nat
    /\ KeepLast \in Nat \ {0} /\ MaxCleanups \in Nat /\ MaxFaults \in Nat

Convs == 1..MaxConvs
Writers == Turns \cup Studios

VARIABLES
    created,    \* how many conversations there are
    row,        \* conversations: what the row says
    messages,   \* how many messages a conversation holds
    workspaces,
    pc,         \* where a turn or a studio is
    at,         \* the conversation it writes to
    seen,       \* the row a turn read before it awaited the title
    cleanups, faults,
    answers,    \* history: turns whose answer was stored
    shown       \* history: conversations a chat turn opened with the user's
                \* message, and the user has not deleted or cleaned up

store == <<created, row, messages, workspaces>>
vars == <<store, pc, at, seen, cleanups, faults, answers, shown>>

Places == Workspaces \cup {None}
Rows == [archived : BOOLEAN, total : Nat, ws : Places]
NewRow(place) == [archived |-> FALSE, total |-> 0, ws |-> place]
NoRow == NewRow(None)
Created == 1..created
Listed == {c \in Created : ~row[c].archived}

TurnPCs == {"new", "streaming", "answered", "titling", "ended", "lost"}
StudioPCs == {"new", "opened", "half", "ended", "lost"}

Init ==
    /\ created = 0
    /\ row = [c \in Convs |-> NoRow]
    /\ messages = [c \in Convs |-> 0]
    /\ workspaces = Workspaces
    /\ pc = [u \in Writers |-> "new"]
    /\ at = [u \in Writers |-> None]
    /\ seen = [t \in Turns |-> NoRow]
    /\ cleanups = 0
    /\ faults = 0
    /\ answers = {}
    /\ shown = {}

-----------------------------------------------------------------------------
(* What the local store does in one connection.                            *)

\* The rows after save_message has stored one message in c.
Counted(rows, c) == [rows EXCEPT ![c].total = @ + 1]

\* A row is empty for archive_empty_conversations if its counter or the
\* messages say so.
IsEmpty(c) == row[c].total <= 0 \/ messages[c] = 0

\* The rows after archive_empty_conversations over the workspaces in scope.
EmptyArchived(scope) ==
    [c \in Convs |->
        IF c \in Listed /\ row[c].ws \in scope /\ IsEmpty(c)
        THEN [row[c] EXCEPT !.archived = TRUE] ELSE row[c]]

\* No workspace in the query stands for all, the empty one for no workspace.
Scopes == {Places} \cup {{place} : place \in Places}

\* A conversation created without a workspace first archives the empty ones of
\* all workspaces.
ScopeOf(place) == IF place = None THEN Places ELSE {place}

Add(c) == messages' = [messages EXCEPT ![c] = @ + 1]

\* A writer goes on, and forgets its conversation when it is done.
Goto(u, where) == pc' = [pc EXCEPT ![u] = where]
Leave(u, how) == Goto(u, how) /\ at' = [at EXCEPT ![u] = None]

-----------------------------------------------------------------------------
(* The routes of the conversation list.                                    *)

ListConversations(scope) ==
    /\ row' = EmptyArchived(scope)
    /\ row' # row
    /\ UNCHANGED <<created, messages, workspaces, pc, at, seen, cleanups,
                   faults, answers, shown>>

DeleteConversation(c) ==
    /\ c \in Listed
    /\ row' = [row EXCEPT ![c].archived = TRUE]
    /\ shown' = shown \ {c}
    /\ UNCHANGED <<created, messages, workspaces, pc, at, seen, cleanups,
                   faults, answers>>

DeleteWorkspace(w) ==
    /\ w \in workspaces
    /\ workspaces' = workspaces \ {w}
    /\ row' = [c \in Convs |->
                 IF row[c].ws = w THEN [row[c] EXCEPT !.ws = None] ELSE row[c]]
    /\ UNCHANGED <<created, messages, pc, at, seen, cleanups, faults, answers,
                   shown>>

\* POST /memory/cleanup archives old conversations and shortens all archived
\* ones; the counters stay.
Cleanup(old) ==
    LET archived == old \cup (Created \ Listed)
    IN /\ cleanups < MaxCleanups
       /\ archived # {}
       /\ row' = [c \in Convs |->
                    [row[c] EXCEPT !.archived = @ \/ c \in old]]
       /\ messages' = [c \in Convs |->
                         IF c \in archived /\ messages[c] > KeepLast
                         THEN KeepLast ELSE messages[c]]
       /\ shown' = shown \ old
       /\ cleanups' = cleanups + 1
       /\ UNCHANGED <<created, workspaces, pc, at, seen, faults, answers>>

-----------------------------------------------------------------------------
(* A chat turn.  Up to the first await it opens the conversation and stores *)
(* the user's message, unless that is an agent's own payload.               *)

\* Mutant: the user's message is stored without counting it.
AskNewUncounted(t, place, kept) ==
    LET c == created + 1
    IN /\ pc[t] = "new" /\ c \in Convs
       /\ created' = c
       /\ row' = [row EXCEPT ![c] = NewRow(place)]
       /\ IF kept THEN Add(c) /\ shown' = shown \cup {c}
                  ELSE UNCHANGED <<messages, shown>>
       /\ at' = [at EXCEPT ![t] = c]
       /\ Goto(t, "streaming")
       /\ UNCHANGED <<workspaces, seen, cleanups, faults, answers>>

AskNew(t, place, kept) ==
    LET c == created + 1
        opened == [row EXCEPT ![c] = NewRow(place)]
    IN /\ pc[t] = "new"
       /\ c \in Convs
       /\ created' = c
       /\ IF kept
          THEN /\ row' = Counted(opened, c) /\ Add(c)
               /\ shown' = shown \cup {c}
          ELSE row' = opened /\ UNCHANGED <<messages, shown>>
       /\ at' = [at EXCEPT ![t] = c]
       /\ Goto(t, "streaming")
       /\ UNCHANGED <<workspaces, seen, cleanups, faults, answers>>

\* load_conversation finds archived conversations too.
AskAgain(t, c, kept) ==
    /\ pc[t] = "new"
    /\ c \in Created
    /\ IF kept THEN row' = Counted(row, c) /\ Add(c)
               ELSE UNCHANGED <<row, messages>>
    /\ at' = [at EXCEPT ![t] = c]
    /\ Goto(t, "streaming")
    /\ UNCHANGED <<created, workspaces, seen, cleanups, faults, answers, shown>>

\* The provider has sent all of an answer; its saving is left to a task.
Answered(t) ==
    /\ pc[t] = "streaming"
    /\ Goto(t, "answered")
    /\ UNCHANGED <<store, at, seen, cleanups, faults, answers, shown>>

\* An error, a timeout, an empty stream, a client that goes away, or an answer
\* that is an agent's own payload and is not kept.
Unanswered(t) ==
    /\ pc[t] = "streaming"
    /\ Leave(t, "ended")
    /\ UNCHANGED <<store, seen, cleanups, faults, answers, shown>>

\* Mutant: the row is read before the answer is counted.
KeepAnswerReadFirst(t) ==
    /\ pc[t] = "answered"
    /\ row' = Counted(row, at[t])
    /\ Add(at[t])
    /\ answers' = answers \cup {t}
    /\ Goto(t, "titling")
    /\ seen' = [seen EXCEPT ![t] = row[at[t]]]
    /\ UNCHANGED <<created, workspaces, at, cleanups, faults, shown>>

\* Mutant: an answer to a conversation archived meanwhile is given up.
KeepAnswerIfListed(t) ==
    /\ pc[t] = "answered"
    /\ IF at[t] \in Listed
       THEN row' = Counted(row, at[t]) /\ Add(at[t]) /\ answers' = answers \cup {t}
       ELSE UNCHANGED <<row, messages, answers>>
    /\ Leave(t, "ended")
    /\ UNCHANGED <<created, workspaces, seen, cleanups, faults, shown>>

\* The answer is stored, and the row read to see whether it needs a title: it
\* does as long as its title is a default one or made of the user's words.
KeepAnswer(t) ==
    LET c == at[t]
        after == Counted(row, c)
    IN /\ pc[t] = "answered"
       /\ row' = after
       /\ Add(c)
       /\ answers' = answers \cup {t}
       /\ \/ Leave(t, "ended") /\ UNCHANGED seen
          \/ /\ Goto(t, "titling") /\ UNCHANGED at
             /\ seen' = [seen EXCEPT ![t] = after[c]]
       /\ UNCHANGED <<created, workspaces, cleanups, faults, shown>>

\* The row as it was read goes back with the title.
SaveTitle(t) ==
    /\ pc[t] = "titling"
    /\ row' = [row EXCEPT ![at[t]] = seen[t]]
    /\ seen' = [seen EXCEPT ![t] = NoRow]
    /\ Leave(t, "ended")
    /\ UNCHANGED <<created, messages, workspaces, cleanups, faults, answers,
                   shown>>

\* Mutant: a turn without a title does not end its task.
NoTitleHolds(t) ==
    /\ pc[t] = "titling"
    /\ Goto(t, "ended")
    /\ UNCHANGED <<store, at, seen, cleanups, faults, answers, shown>>

\* No title came of it, or the one the row has.
NoTitle(t) ==
    /\ pc[t] = "titling"
    /\ seen' = [seen EXCEPT ![t] = NoRow]
    /\ Leave(t, "ended")
    /\ UNCHANGED <<store, cleanups, faults, answers, shown>>

-----------------------------------------------------------------------------
(* The client saves a generated picture, voice or video in up to three      *)
(* requests: the conversation, the user's message, the assistant's.         *)

OpenStudio(s, c, place) ==
    /\ pc[s] = "new"
    /\ \/ /\ c = created + 1
          /\ created' = c
          /\ row' = [EmptyArchived(ScopeOf(place)) EXCEPT ![c] = NewRow(place)]
       \/ /\ c \in Listed /\ place = row[c].ws  \* the one the client shows
          /\ UNCHANGED <<created, row>>
    /\ at' = [at EXCEPT ![s] = c]
    /\ Goto(s, "opened")
    /\ UNCHANGED <<messages, workspaces, seen, cleanups, faults, answers,
                   shown>>

AddStudioMessage(s) ==
    /\ \/ pc[s] = "opened" /\ Goto(s, "half") /\ UNCHANGED at
       \/ pc[s] = "half" /\ Leave(s, "ended")
    /\ row' = Counted(row, at[s])
    /\ Add(at[s])
    /\ UNCHANGED <<created, workspaces, seen, cleanups, faults, answers, shown>>

-----------------------------------------------------------------------------
(* Faults.                                                                 *)

\* A full or locked database: the answer is given up with a warning, a studio's
\* request fails and the client does not repeat it.
WriteFails(u) ==
    /\ faults < MaxFaults
    /\ pc[u] \in {"answered", "opened", "half"}
    /\ Leave(u, "lost")
    /\ faults' = faults + 1
    /\ UNCHANGED <<store, seen, cleanups, answers, shown>>

\* The process dies: what only its tasks knew is gone.
Die(gone) ==
    /\ faults < MaxFaults
    /\ pc' = [u \in Writers |-> IF u \in gone THEN "lost" ELSE pc[u]]
    /\ at' = [u \in Writers |-> None]
    /\ seen' = [t \in Turns |-> NoRow]
    /\ faults' = faults + 1

Running == {u \in Writers : pc[u] \notin {"new", "ended", "lost"}}

Crash == Die(Running) /\ UNCHANGED <<store, cleanups, answers, shown>>

\* It dies after create_conversation and before the user's message is stored.
CrashInAsk(t, place) ==
    /\ pc[t] = "new" /\ created < MaxConvs
    /\ created' = created + 1
    /\ row' = [row EXCEPT ![created'] = NewRow(place)]
    /\ Die(Running \cup {t})
    /\ UNCHANGED <<messages, workspaces, cleanups, answers, shown>>

-----------------------------------------------------------------------------

\* The client offers the workspaces it has.
Offered == workspaces \cup {None}

Ask(t) ==
    \E kept \in BOOLEAN :
        \/ \E place \in Offered : AskNew(t, place, kept)
        \/ \E c \in Convs : AskAgain(t, c, kept)

TurnGoesOn(t) ==
    \/ Answered(t)
    \/ Unanswered(t)
    \/ KeepAnswer(t)
    \/ SaveTitle(t)
    \/ NoTitle(t)

Next ==
    \/ \E scope \in Scopes : ListConversations(scope)
    \/ \E c \in Convs : DeleteConversation(c)
    \/ \E w \in Workspaces : DeleteWorkspace(w)
    \/ \E old \in SUBSET Listed : Cleanup(old)
    \/ \E t \in Turns : Ask(t) \/ TurnGoesOn(t)
    \/ \E s \in Studios, c \in Convs, place \in Offered :
           OpenStudio(s, c, place)
    \/ \E s \in Studios : AddStudioMessage(s)
    \/ \E u \in Writers : WriteFails(u)
    \/ Crash
    \/ \E t \in Turns, place \in Offered : CrashInAsk(t, place)

\* A stream ends within its read timeout, and the event loop runs every task.
Fairness == \A t \in Turns : WF_vars(TurnGoesOn(t))

Spec == Init /\ [][Next]_vars /\ Fairness

-----------------------------------------------------------------------------

\* Types, and what a turn holds: a row read before an await belongs to a turn
\* that awaits a title, a conversation to one that is running.
TypeOK ==
    /\ created \in 0..MaxConvs
    /\ row \in [Convs -> Rows]
    /\ \A c \in Convs \ Created : row[c] = NoRow /\ messages[c] = 0
    /\ messages \in [Convs -> Nat]
    /\ workspaces \subseteq Workspaces
    /\ pc \in [Writers -> TurnPCs \cup StudioPCs]
    /\ \A t \in Turns : pc[t] \in TurnPCs
    /\ \A s \in Studios : pc[s] \in StudioPCs
    /\ at \in [Writers -> Convs \cup {None}]
    /\ \A u \in Writers : at[u] \in IF u \in Running THEN Created ELSE {None}
    /\ seen \in [Turns -> Rows]
    /\ \A t \in Turns : pc[t] # "titling" => seen[t] = NoRow
    /\ cleanups \in 0..MaxCleanups /\ faults \in 0..MaxFaults
    /\ answers \subseteq Turns
    /\ shown \subseteq Created

\* However stale the copies that titles are saved with and whatever a cleanup
\* deletes, the counter of a conversation and its messages agree on whether it
\* is empty: archive_empty_conversations, which trusts either, never takes a
\* conversation that holds messages for an empty one.
CounterTellsEmpty ==
    \A c \in Created : (row[c].total > 0) <=> (messages[c] > 0)

\* A conversation that a chat turn opened with the user's message stays in the
\* list until the user deletes it or cleans up: no listing, creation, title or
\* crash hides it.
AskedStaysListed == shown \subseteq Listed

\* An answer that was streamed to its end is stored, into whatever became of
\* its conversation meanwhile, unless the process dies or the write fails.
AnswersAreKept ==
    \A t \in Turns : pc[t] = "answered" ~> (pc[t] = "lost" \/ t \in answers)
=============================================================================
