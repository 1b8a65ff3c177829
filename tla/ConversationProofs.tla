------------------------- MODULE ConversationProofs -------------------------
(***************************************************************************)
(* Theorems about ConversationStore, for every number of conversations,    *)
(* turns, studios, cleanups and faults.                                    *)
(***************************************************************************)
EXTENDS ConversationStore, TLAPS

-----------------------------------------------------------------------------
(* The inductive invariant. *)

\* The copy a title will be saved with is that of a conversation with messages,
\* and was listed if the conversation still has to be.
TitlesAreSafe ==
    \A t \in Turns : pc[t] = "titling" =>
        /\ seen[t].total > 0 /\ messages[at[t]] > 0
        /\ at[t] \in shown => ~seen[t].archived

\* What a chat turn opened is listed, and not empty.
ShownIsListed == \A c \in shown : c \in Listed /\ row[c].total > 0

IInv == TypeOK /\ CounterTellsEmpty /\ TitlesAreSafe /\ ShownIsListed

-----------------------------------------------------------------------------
(* The rows that the operations of the local store leave.                  *)

LEMMA RowParts ==
    ASSUME NEW r \in Rows
    PROVE  /\ r.archived \in BOOLEAN /\ r.total \in Nat /\ r.ws \in Places
           /\ r = [archived |-> r.archived, total |-> r.total, ws |-> r.ws]
BY DEF Rows

LEMMA NewRowIsRow ==
    ASSUME NEW place \in Places
    PROVE  /\ NewRow(place) \in Rows /\ ~NewRow(place).archived
           /\ NewRow(place).total = 0
BY DEF NewRow, Rows

LEMMA NoRowIsRow == NoRow \in Rows /\ ~NoRow.archived /\ NoRow.total = 0
BY NewRowIsRow DEF NoRow, Places

LEMMA ArchivedRow ==
    ASSUME NEW r \in Rows, NEW b \in BOOLEAN
    PROVE  LET new == [r EXCEPT !.archived = b]
           IN new \in Rows /\ new.archived = b /\ new.total = r.total
BY DEF Rows

LEMMA MovedRow ==
    ASSUME NEW r \in Rows, NEW place \in Places
    PROVE  LET new == [r EXCEPT !.ws = place]
           IN new \in Rows /\ new.archived = r.archived /\ new.total = r.total
BY DEF Rows

LEMMA MoreRow ==
    ASSUME NEW r \in Rows
    PROVE  LET new == [r EXCEPT !.total = @ + 1]
           IN new \in Rows /\ new.archived = r.archived /\ new.total = r.total + 1
BY DEF Rows

LEMMA CountedRows ==
    ASSUME NEW rows \in [Convs -> Rows], NEW c \in Convs
    PROVE  /\ Counted(rows, c) \in [Convs -> Rows]
           /\ \A d \in Convs :
                 /\ d # c => Counted(rows, c)[d] = rows[d]
                 /\ Counted(rows, c)[d].archived = rows[d].archived
                 /\ Counted(rows, c)[d].total =
                       IF d = c THEN rows[d].total + 1 ELSE rows[d].total
<1>1. Counted(rows, c) = [rows EXCEPT ![c] = [rows[c] EXCEPT !.total = @ + 1]]
  BY DEF Counted
<1>2. rows[c] \in Rows
  OBVIOUS
<1> DEFINE new == [rows[c] EXCEPT !.total = @ + 1]
<1>3. new \in Rows /\ new.archived = rows[c].archived /\ new.total = rows[c].total + 1
  BY <1>2, MoreRow
<1>4. Counted(rows, c) = [rows EXCEPT ![c] = new]
  BY <1>1
<1> HIDE DEF new
<1> QED BY <1>3, <1>4

LEMMA EmptyArchivedRows ==
    ASSUME TypeOK, NEW scope
    PROVE  /\ EmptyArchived(scope) \in [Convs -> Rows]
           /\ \A d \in Convs :
                 /\ EmptyArchived(scope)[d].total = row[d].total
                 /\ d \notin Created => EmptyArchived(scope)[d] = row[d]
                 /\ ~IsEmpty(d) => EmptyArchived(scope)[d] = row[d]
<1> DEFINE new(d) == [row[d] EXCEPT !.archived = TRUE]
           out(d) == IF d \in Listed /\ row[d].ws \in scope /\ IsEmpty(d)
                     THEN new(d) ELSE row[d]
<1>1. EmptyArchived(scope) = [d \in Convs |-> out(d)]
  BY DEF EmptyArchived
<1>2. \A d \in Convs : row[d] \in Rows
  BY DEF TypeOK
<1>3. \A d \in Convs : new(d) \in Rows /\ new(d).total = row[d].total
  BY <1>2, ArchivedRow
<1> HIDE DEF new
<1>4. \A d \in Convs : out(d) \in Rows /\ out(d).total = row[d].total
  BY <1>2, <1>3
<1>5. \A d \in Convs : (d \notin Created \/ ~IsEmpty(d)) => out(d) = row[d]
  BY DEF Listed
<1> HIDE DEF out
<1> QED BY <1>1, <1>4, <1>5

-----------------------------------------------------------------------------
(* What a step keeps if it leaves a part of the state alone.               *)

WritersOK ==
    /\ pc \in [Writers -> TurnPCs \cup StudioPCs]
    /\ \A t \in Turns : pc[t] \in TurnPCs
    /\ \A s \in Studios : pc[s] \in StudioPCs
    /\ at \in [Writers -> Convs \cup {None}]
    /\ \A u \in Writers : at[u] \in IF u \in Running THEN Created ELSE {None}

StoreOK ==
    /\ created \in 0..MaxConvs
    /\ row \in [Convs -> Rows]
    /\ \A c \in Convs \ Created : row[c] = NoRow /\ messages[c] = 0
    /\ messages \in [Convs -> Nat]
    /\ workspaces \subseteq Workspaces
    /\ shown \subseteq Created

SeenOK ==
    /\ seen \in [Turns -> Rows]
    /\ \A t \in Turns : pc[t] # "titling" => seen[t] = NoRow

BoundsOK ==
    cleanups \in 0..MaxCleanups /\ faults \in 0..MaxFaults /\ answers \subseteq Turns

LEMMA TypeParts == TypeOK <=> WritersOK /\ StoreOK /\ SeenOK /\ BoundsOK
BY DEF TypeOK, WritersOK, StoreOK, SeenOK, BoundsOK

LEMMA TypePartsNext == TypeOK' <=> WritersOK' /\ StoreOK' /\ SeenOK' /\ BoundsOK'
BY DEF TypeOK, WritersOK, StoreOK, SeenOK, BoundsOK

LEMMA CreatedIsConv == TypeOK => Created \subseteq Convs
BY StoreAssumption DEF TypeOK, Created, Convs

\* A writer goes to where, with c as its conversation.
LEMMA WriterMoves ==
    ASSUME TypeOK, Created \subseteq Created', NEW u \in Writers, NEW where,
           u \in Turns => where \in TurnPCs, u \in Studios => where \in StudioPCs,
           NEW c \in Convs \cup {None},
           c \in IF where \in {"new", "ended", "lost"} THEN {None} ELSE Created',
           pc' = [pc EXCEPT ![u] = where], at' = [at EXCEPT ![u] = c]
    PROVE  WritersOK'
<1>1. pc' \in [Writers -> TurnPCs \cup StudioPCs]
  BY DEF TypeOK, Writers
<1>2. \A v \in Writers : pc'[v] = IF v = u THEN where ELSE pc[v]
  BY DEF TypeOK
<1>3. \A v \in Writers : at'[v] = IF v = u THEN c ELSE at[v]
  BY DEF TypeOK
<1>4. at' \in [Writers -> Convs \cup {None}]
  BY DEF TypeOK
<1>5. ASSUME NEW v \in Writers
      PROVE  at'[v] \in IF v \in Running' THEN Created' ELSE {None}
  BY <1>2, <1>3 DEF Running, TypeOK
<1>6. (\A t \in Turns : pc'[t] \in TurnPCs) /\ (\A s \in Studios : pc'[s] \in StudioPCs)
  BY <1>2 DEF TypeOK, Writers
<1> QED BY <1>1, <1>4, <1>5, <1>6 DEF WritersOK

\* A writer that moves within its work.
LEMMA WriterGoes ==
    ASSUME TypeOK, created' = created, NEW u \in Running, NEW where,
           where \notin {"new", "ended", "lost"},
           u \in Turns => where \in TurnPCs, u \in Studios => where \in StudioPCs,
           Goto(u, where), UNCHANGED at
    PROVE  WritersOK'
<1>1. u \in Writers /\ at[u] \in Created /\ at[u] \in Convs \cup {None}
  BY DEF Running, TypeOK
<1>2. at' = [at EXCEPT ![u] = at[u]]
  BY <1>1 DEF TypeOK
<1>3. Created' = Created
  BY DEF Created
<1> QED BY <1>1, <1>2, <1>3, WriterMoves DEF Goto

\* A writer that is done.
LEMMA WriterLeaves ==
    ASSUME TypeOK, created' = created, NEW u \in Writers, NEW how \in {"ended", "lost"},
           Leave(u, how)
    PROVE  WritersOK'
<1>1. Created' = Created
  BY DEF Created
<1>2. how \in TurnPCs /\ how \in StudioPCs
  BY DEF TurnPCs, StudioPCs
<1> QED BY <1>1, <1>2, WriterMoves DEF Leave, Goto

\* Writers that stay where they are.
LEMMA WritersStay ==
    ASSUME TypeOK, UNCHANGED <<created, pc, at>>
    PROVE  WritersOK'
BY TypeParts DEF WritersOK, Running, Created

\* A store that stays as it is.
LEMMA StoreStays ==
    ASSUME TypeOK, UNCHANGED <<store, shown>>
    PROVE  StoreOK'
BY TypeParts DEF StoreOK, store, Created

\* A title that is no turn's before stays safe if its conversation does.
LEMMA TitlesStay ==
    ASSUME TypeOK, TitlesAreSafe, UNCHANGED <<pc, at, seen>>,
           \A c \in Created : messages[c] > 0 => messages'[c] > 0,
           shown' \subseteq shown
    PROVE  TitlesAreSafe'
<1>1. \A t \in Turns : pc[t] = "titling" => at[t] \in Created
  BY DEF TypeOK, Running, Writers
<1> QED BY <1>1 DEF TitlesAreSafe

-----------------------------------------------------------------------------
(* The initial state, and the routes of the conversation list.             *)

LEMMA InitInv == Init => IInv
<1> SUFFICES ASSUME Init PROVE IInv
  OBVIOUS
<1> USE StoreAssumption DEF Init
<1>1. Created = {}
  BY DEF Created
<1>2. StoreOK
  BY <1>1, NoRowIsRow DEF StoreOK
<1>3. WritersOK
  BY <1>1 DEF WritersOK, Running, TurnPCs, StudioPCs, Writers
<1>4. SeenOK /\ BoundsOK
  BY NoRowIsRow DEF SeenOK, BoundsOK
<1>5. TypeOK
  BY <1>2, <1>3, <1>4, TypeParts
<1>6. TitlesAreSafe
  BY DEF TitlesAreSafe, Writers
<1> QED BY <1>1, <1>5, <1>6 DEF IInv, CounterTellsEmpty, ShownIsListed

LEMMA ListStep ==
    ASSUME IInv, NEW scope, ListConversations(scope)
    PROVE  IInv'
<1> USE DEF ListConversations
<1>1. TypeOK /\ CounterTellsEmpty /\ TitlesAreSafe /\ ShownIsListed
  BY DEF IInv
<1>2. Created' = Created /\ Created \subseteq Convs
  BY <1>1, CreatedIsConv DEF Created
<1>3. /\ row' \in [Convs -> Rows]
      /\ \A d \in Convs :
            /\ row'[d].total = row[d].total
            /\ d \notin Created => row'[d] = row[d]
            /\ ~IsEmpty(d) => row'[d] = row[d]
  BY <1>1, EmptyArchivedRows
<1>4. TypeOK'
  <2>1. StoreOK'
    BY <1>1, <1>2, <1>3, TypeParts DEF StoreOK
  <2>2. SeenOK' /\ BoundsOK'
    BY <1>1, TypeParts DEF SeenOK, BoundsOK
  <2> QED BY <1>1, <2>1, <2>2, WritersStay, TypePartsNext
<1>5. CounterTellsEmpty'
  BY <1>1, <1>2, <1>3 DEF CounterTellsEmpty
<1>6. TitlesAreSafe'
  BY <1>1, TitlesStay
<1>7. ShownIsListed'
  <2> SUFFICES ASSUME NEW c \in shown PROVE c \in Listed' /\ row'[c].total > 0
    BY DEF ShownIsListed
  <2>1. c \in Created /\ ~row[c].archived /\ row[c].total > 0
    BY <1>1 DEF ShownIsListed, Listed
  <2>2. row[c] \in Rows /\ row[c].total \in Nat /\ messages[c] \in Nat /\ messages[c] > 0
    BY <1>1, <1>2, <2>1, RowParts DEF CounterTellsEmpty, TypeOK
  <2>3. ~IsEmpty(c)
    BY <2>1, <2>2 DEF IsEmpty
  <2> QED BY <1>2, <1>3, <2>1, <2>3 DEF Listed
<1> QED BY <1>4, <1>5, <1>6, <1>7 DEF IInv

LEMMA DeleteStep ==
    ASSUME IInv, NEW c \in Convs, DeleteConversation(c)
    PROVE  IInv'
<1> USE DEF DeleteConversation
<1>1. TypeOK /\ CounterTellsEmpty /\ TitlesAreSafe /\ ShownIsListed
  BY DEF IInv
<1>2. Created' = Created /\ Created \subseteq Convs /\ c \in Created
  BY <1>1, CreatedIsConv DEF Created, Listed
<1>3. /\ row' \in [Convs -> Rows]
      /\ \A d \in Convs :
            row'[d].total = row[d].total /\ (d # c => row'[d] = row[d])
  <2> DEFINE new == [row[c] EXCEPT !.archived = TRUE]
  <2>1. row[c] \in Rows
    BY <1>1, <1>2 DEF TypeOK
  <2>2. new \in Rows /\ new.total = row[c].total
    BY <2>1, ArchivedRow
  <2>3. row' = [row EXCEPT ![c] = new]
    OBVIOUS
  <2> HIDE DEF new
  <2> QED BY <1>1, <2>2, <2>3 DEF TypeOK
<1>4. TypeOK'
  <2>1. StoreOK'
    BY <1>1, <1>2, <1>3, TypeParts DEF StoreOK
  <2>2. SeenOK' /\ BoundsOK'
    BY <1>1, TypeParts DEF SeenOK, BoundsOK
  <2> QED BY <1>1, <2>1, <2>2, WritersStay, TypePartsNext
<1>5. CounterTellsEmpty'
  BY <1>1, <1>2, <1>3 DEF CounterTellsEmpty
<1>6. TitlesAreSafe'
  BY <1>1, TitlesStay
<1>7. ShownIsListed'
  BY <1>1, <1>2, <1>3 DEF ShownIsListed, Listed
<1> QED BY <1>4, <1>5, <1>6, <1>7 DEF IInv

LEMMA DeleteWorkspaceStep ==
    ASSUME IInv, NEW w \in Workspaces, DeleteWorkspace(w)
    PROVE  IInv'
<1> USE DEF DeleteWorkspace
<1>1. TypeOK /\ CounterTellsEmpty /\ TitlesAreSafe /\ ShownIsListed
  BY DEF IInv
<1>2. Created' = Created /\ Created \subseteq Convs
  BY <1>1, CreatedIsConv DEF Created
<1>3. /\ row' \in [Convs -> Rows]
      /\ \A d \in Convs :
            /\ row'[d].total = row[d].total /\ row'[d].archived = row[d].archived
            /\ d \notin Created => row'[d] = row[d]
  <2> DEFINE new(d) == [row[d] EXCEPT !.ws = None]
  <2>1. \A d \in Convs : row[d] \in Rows
    BY <1>1 DEF TypeOK
  <2>2. \A d \in Convs : /\ new(d) \in Rows /\ new(d).total = row[d].total
                         /\ new(d).archived = row[d].archived
    BY <2>1, MovedRow DEF Places
  <2>3. \A d \in Convs \ Created : row[d].ws # w
    BY <1>1, StoreAssumption DEF TypeOK, NoRow, NewRow
  <2>4. row' = [d \in Convs |-> IF row[d].ws = w THEN new(d) ELSE row[d]]
    OBVIOUS
  <2> HIDE DEF new
  <2> QED BY <2>1, <2>2, <2>3, <2>4
<1>4. TypeOK'
  <2>1. StoreOK'
    BY <1>1, <1>2, <1>3, TypeParts DEF StoreOK
  <2>2. SeenOK' /\ BoundsOK'
    BY <1>1, TypeParts DEF SeenOK, BoundsOK
  <2> QED BY <1>1, <2>1, <2>2, WritersStay, TypePartsNext
<1>5. CounterTellsEmpty'
  BY <1>1, <1>2, <1>3 DEF CounterTellsEmpty
<1>6. TitlesAreSafe'
  BY <1>1, TitlesStay
<1>7. ShownIsListed'
  BY <1>1, <1>2, <1>3 DEF ShownIsListed, Listed, TypeOK
<1> QED BY <1>4, <1>5, <1>6, <1>7 DEF IInv

\* A cleanup leaves at least one message where there was one.
LEMMA CleanupStep ==
    ASSUME IInv, NEW old \in SUBSET Listed, Cleanup(old)
    PROVE  IInv'
<1> USE DEF Cleanup
<1>1. TypeOK /\ CounterTellsEmpty /\ TitlesAreSafe /\ ShownIsListed
  BY DEF IInv
<1>2. Created' = Created /\ Created \subseteq Convs /\ old \subseteq Created
  BY <1>1, CreatedIsConv DEF Created, Listed
<1>3. /\ row' \in [Convs -> Rows]
      /\ \A d \in Convs :
            row'[d].total = row[d].total /\ (d \notin old => row'[d] = row[d])
  <2> DEFINE new(d) == [row[d] EXCEPT !.archived = @ \/ d \in old]
  <2>1. \A d \in Convs : row[d] \in Rows /\ row[d].archived \in BOOLEAN
    BY <1>1, RowParts DEF TypeOK
  <2>2. \A d \in Convs : new(d) = [row[d] EXCEPT !.archived = row[d].archived \/ d \in old]
    OBVIOUS
  <2>3. \A d \in Convs : new(d) \in Rows /\ new(d).total = row[d].total
    BY <2>1, <2>2, ArchivedRow
  <2>4. \A d \in Convs : d \notin old => new(d) = row[d]
    <3> SUFFICES ASSUME NEW d \in Convs, d \notin old PROVE new(d) = row[d]
      OBVIOUS
    <3>1. new(d) = [row[d] EXCEPT !.archived = row[d].archived]
      BY <2>1
    <3> QED BY <2>1, <3>1, RowParts
  <2>5. row' = [d \in Convs |-> new(d)]
    OBVIOUS
  <2> HIDE DEF new
  <2> QED BY <2>3, <2>4, <2>5
<1>4. /\ messages' \in [Convs -> Nat]
      /\ \A d \in Convs : (messages'[d] > 0) <=> (messages[d] > 0)
      /\ \A d \in Convs : messages[d] = 0 => messages'[d] = 0
  BY <1>1, StoreAssumption DEF TypeOK
<1>5. TypeOK'
  <2>1. StoreOK'
    BY <1>1, <1>2, <1>3, <1>4, TypeParts DEF StoreOK
  <2>2. SeenOK' /\ BoundsOK'
    BY <1>1, StoreAssumption, TypeParts DEF SeenOK, BoundsOK
  <2> QED BY <1>1, <2>1, <2>2, WritersStay, TypePartsNext
<1>6. CounterTellsEmpty'
  BY <1>1, <1>2, <1>3, <1>4 DEF CounterTellsEmpty
<1>7. TitlesAreSafe'
  BY <1>1, <1>2, <1>4, TitlesStay
<1>8. ShownIsListed'
  BY <1>1, <1>2, <1>3 DEF ShownIsListed, Listed, TypeOK
<1> QED BY <1>5, <1>6, <1>7, <1>8 DEF IInv

-----------------------------------------------------------------------------
(* What the steps of a writer keep.                                        *)

LEMMA OneMore ==
    ASSUME TypeOK, NEW c \in Convs, Add(c)
    PROVE  /\ messages' \in [Convs -> Nat]
           /\ messages'[c] > 0
           /\ \A d \in Convs :
                 /\ d # c => messages'[d] = messages[d]
                 /\ messages[d] > 0 => messages'[d] > 0
BY DEF TypeOK, Add

\* The titles of the other turns stay safe.
LEMMA TitlesOfOthers ==
    ASSUME TypeOK, TitlesAreSafe, NEW u \in Writers,
           \A v \in Writers \ {u} : pc'[v] = pc[v] /\ at'[v] = at[v],
           \A t \in Turns \ {u} : seen'[t] = seen[t],
           \A c \in Created : messages[c] > 0 => messages'[c] > 0,
           shown' \cap Created \subseteq shown,
           NEW t \in Turns \ {u}, pc'[t] = "titling"
    PROVE  /\ seen'[t].total > 0 /\ messages'[at'[t]] > 0
           /\ at'[t] \in shown' => ~seen'[t].archived
<1>1. t \in Writers /\ pc[t] = "titling" /\ at'[t] = at[t] /\ seen'[t] = seen[t]
  BY DEF Writers
<1>2. at[t] \in Created
  BY <1>1 DEF TypeOK, Running
<1> QED BY <1>1, <1>2 DEF TitlesAreSafe

LEMMA SeenOfOthers ==
    ASSUME TypeOK, NEW u \in Writers,
           \A v \in Writers \ {u} : pc'[v] = pc[v],
           UNCHANGED seen, pc[u] # "titling"
    PROVE  SeenOK'
BY DEF TypeOK, SeenOK, Writers

\* A turn clears what it read when it does not await a title.
LEMMA SeenCleared ==
    ASSUME TypeOK, NEW t \in Turns, \A v \in Writers \ {t} : pc'[v] = pc[v],
           seen' = [seen EXCEPT ![t] = NoRow]
    PROVE  SeenOK'
BY NoRowIsRow DEF TypeOK, SeenOK, Writers

LEMMA OthersStay ==
    ASSUME TypeOK, NEW u \in Writers, NEW where,
           \/ Goto(u, where) /\ UNCHANGED at
           \/ Leave(u, where)
           \/ Goto(u, where) /\ \E c \in Convs : at' = [at EXCEPT ![u] = c]
    PROVE  /\ pc'[u] = where
           /\ \A v \in Writers \ {u} : pc'[v] = pc[v] /\ at'[v] = at[v]
BY DEF TypeOK, Goto, Leave

-----------------------------------------------------------------------------
(* The steps of a chat turn.                                               *)

LEMMA AskNewStep ==
    ASSUME IInv, NEW t \in Turns, NEW place \in Offered, NEW kept \in BOOLEAN,
           AskNew(t, place, kept)
    PROVE  IInv'
<1> DEFINE c == created + 1
           opened == [row EXCEPT ![c] = NewRow(place)]
<1>1. TypeOK /\ CounterTellsEmpty /\ TitlesAreSafe /\ ShownIsListed
  BY DEF IInv
<1>2. /\ pc[t] = "new" /\ c \in Convs /\ created' = c
      /\ IF kept THEN /\ row' = Counted(opened, c) /\ Add(c)
                      /\ shown' = shown \cup {c}
                 ELSE row' = opened /\ UNCHANGED <<messages, shown>>
      /\ at' = [at EXCEPT ![t] = c] /\ Goto(t, "streaming")
      /\ UNCHANGED <<workspaces, seen, cleanups, faults, answers>>
  BY DEF AskNew
<1>3. /\ Created' = Created \cup {c} /\ c \notin Created
      /\ Created \subseteq Convs /\ created' \in 0..MaxConvs
  BY <1>1, <1>2, CreatedIsConv DEF Created, TypeOK, Convs
<1>4. NewRow(place) \in Rows /\ ~NewRow(place).archived /\ NewRow(place).total = 0
  BY <1>1, NewRowIsRow DEF Offered, Places, TypeOK
<1> HIDE DEF c
<1>5. /\ opened \in [Convs -> Rows] /\ opened[c] = NewRow(place)
      /\ \A d \in Convs : d # c => opened[d] = row[d]
  BY <1>1, <1>2, <1>4 DEF TypeOK
<1> HIDE DEF opened
<1>6. /\ row' \in [Convs -> Rows] /\ ~row'[c].archived
      /\ row'[c].total = IF kept THEN 1 ELSE 0
      /\ \A d \in Convs : d # c => row'[d] = row[d]
  BY <1>2, <1>4, <1>5, CountedRows
<1>7. messages[c] = 0
  BY <1>1, <1>2, <1>3 DEF TypeOK
<1>8. /\ messages' \in [Convs -> Nat]
      /\ (messages'[c] > 0) <=> kept
      /\ \A d \in Convs : d # c => messages'[d] = messages[d]
  BY <1>1, <1>2, <1>7, OneMore DEF TypeOK
<1>9. TypeOK'
  <2>1. StoreOK'
    BY <1>1, <1>2, <1>3, <1>6, <1>8, TypeParts DEF StoreOK
  <2>2. BoundsOK'
    BY <1>1, <1>2, TypeParts DEF BoundsOK
  <2>3. t \in Writers /\ t \notin Studios
    BY StoreAssumption DEF Writers
  <2>4. WritersOK'
    BY <1>1, <1>2, <1>3, <2>3, WriterMoves DEF Goto, TurnPCs
  <2>5. SeenOK'
    BY <1>1, <1>2, <2>3, SeenOfOthers DEF Goto
  <2> QED BY <2>1, <2>2, <2>4, <2>5, TypePartsNext
<1>10. CounterTellsEmpty'
  BY <1>1, <1>3, <1>6, <1>8 DEF CounterTellsEmpty
<1>11. TitlesAreSafe'
  <2>1. t \in Writers /\ pc'[t] = "streaming"
        /\ \A v \in Writers \ {t} : pc'[v] = pc[v] /\ at'[v] = at[v]
    BY <1>1, <1>2 DEF Goto, TypeOK, Writers
  <2>2. (\A d \in Created : messages[d] > 0 => messages'[d] > 0)
        /\ shown' \cap Created \subseteq shown
    BY <1>2, <1>3, <1>8
  <2> QED BY <1>1, <1>2, <2>1, <2>2, TitlesOfOthers DEF TitlesAreSafe
<1>12. ShownIsListed'
  <2> SUFFICES ASSUME NEW d \in shown' PROVE d \in Listed' /\ row'[d].total > 0
    BY DEF ShownIsListed
  <2>1. CASE d = c
    <3>1. c \notin shown
      BY <1>1, <1>3 DEF ShownIsListed, Listed
    <3>2. kept
      BY <1>2, <2>1, <3>1
    <3> QED BY <1>3, <1>6, <2>1, <3>2 DEF Listed
  <2>2. CASE d # c
    BY <1>1, <1>2, <1>3, <1>6, <2>2 DEF Listed, ShownIsListed
  <2> QED BY <2>1, <2>2
<1> QED BY <1>9, <1>10, <1>11, <1>12 DEF IInv

\* A writer that stores a message of an existing conversation.
LEMMA MessageKept ==
    ASSUME IInv, NEW c \in Created, row' = Counted(row, c), Add(c),
           UNCHANGED <<created, workspaces, shown>>
    PROVE  StoreOK' /\ CounterTellsEmpty' /\ ShownIsListed'
<1>1. TypeOK /\ CounterTellsEmpty /\ ShownIsListed
  BY DEF IInv
<1>2. Created' = Created /\ Created \subseteq Convs
  BY <1>1, CreatedIsConv DEF Created
<1>3. /\ row' \in [Convs -> Rows]
      /\ \A d \in Convs :
            /\ d # c => row'[d] = row[d]
            /\ row'[d].archived = row[d].archived
            /\ row'[d].total = IF d = c THEN row[d].total + 1 ELSE row[d].total
  BY <1>1, <1>2, CountedRows DEF TypeOK
<1>4. row[c].total \in Nat
  BY <1>1, <1>2, RowParts DEF TypeOK
<1>5. StoreOK'
  BY <1>1, <1>2, <1>3, OneMore, TypeParts DEF StoreOK
<1>6. CounterTellsEmpty'
  BY <1>1, <1>2, <1>3, <1>4, OneMore DEF CounterTellsEmpty
<1>7. ShownIsListed'
  BY <1>1, <1>2, <1>3, <1>4 DEF ShownIsListed, Listed
<1> QED BY <1>5, <1>6, <1>7

\* A step that leaves the store alone.
LEMMA StoreKept ==
    ASSUME IInv, UNCHANGED <<store, shown>>
    PROVE  StoreOK' /\ CounterTellsEmpty' /\ ShownIsListed'
BY StoreStays DEF IInv, CounterTellsEmpty, ShownIsListed, store, Created, Listed

LEMMA AskAgainStep ==
    ASSUME IInv, NEW t \in Turns, NEW c \in Convs, NEW kept \in BOOLEAN,
           AskAgain(t, c, kept)
    PROVE  IInv'
<1> USE DEF AskAgain
<1>1. TypeOK /\ TitlesAreSafe
  BY DEF IInv
<1>2. Created' = Created /\ c \in Created /\ Created \subseteq Convs
  BY <1>1, CreatedIsConv DEF Created
<1>3. StoreOK' /\ CounterTellsEmpty' /\ ShownIsListed'
  <2>1. CASE kept
    BY <1>2, <2>1, MessageKept
  <2>2. CASE ~kept
    BY <2>2, StoreKept DEF store
  <2> QED BY <2>1, <2>2
<1>4. t \in Writers /\ t \notin Studios
  BY StoreAssumption DEF Writers
<1>5. /\ pc'[t] = "streaming"
      /\ \A v \in Writers \ {t} : pc'[v] = pc[v] /\ at'[v] = at[v]
  BY <1>1, <1>4, OthersStay
<1>6. TypeOK'
  <2>1. WritersOK'
    BY <1>1, <1>2, <1>4, WriterMoves DEF Goto, TurnPCs
  <2>2. SeenOK'
    BY <1>1, <1>4, <1>5, SeenOfOthers
  <2>3. BoundsOK'
    BY <1>1, TypeParts DEF BoundsOK
  <2> QED BY <1>3, <2>1, <2>2, <2>3, TypePartsNext
<1>7. \A d \in Created : messages[d] > 0 => messages'[d] > 0
  BY <1>1, <1>2, OneMore
<1>8. TitlesAreSafe'
  BY <1>1, <1>4, <1>5, <1>7, TitlesOfOthers DEF TitlesAreSafe
<1> QED BY <1>3, <1>6, <1>8 DEF IInv

\* A turn that does not await a title before or after.
LEMMA TurnMoves ==
    ASSUME IInv, NEW u \in Writers, pc[u] # "titling", pc'[u] # "titling",
           \A v \in Writers \ {u} : pc'[v] = pc[v] /\ at'[v] = at[v],
           WritersOK', StoreOK', CounterTellsEmpty', ShownIsListed', BoundsOK',
           \A d \in Created : messages[d] > 0 => messages'[d] > 0,
           UNCHANGED <<seen, shown>>
    PROVE  IInv'
<1>1. TypeOK /\ TitlesAreSafe
  BY DEF IInv
<1>2. SeenOK'
  BY <1>1, SeenOfOthers
<1>3. TitlesAreSafe'
  BY <1>1, TitlesOfOthers DEF TitlesAreSafe
<1> QED BY <1>2, <1>3, TypePartsNext DEF IInv

LEMMA AnsweredStep ==
    ASSUME IInv, NEW t \in Turns, Answered(t)
    PROVE  IInv'
<1> USE DEF Answered
<1>1. TypeOK /\ t \in Writers /\ t \notin Studios /\ t \in Running
  BY StoreAssumption DEF IInv, Writers, Running
<1>2. pc'[t] = "answered" /\ \A v \in Writers \ {t} : pc'[v] = pc[v] /\ at'[v] = at[v]
  BY <1>1, OthersStay
<1>3. WritersOK'
  BY <1>1, WriterGoes DEF TurnPCs, store
<1>4. BoundsOK'
  BY <1>1, TypeParts DEF BoundsOK
<1> QED BY <1>1, <1>2, <1>3, <1>4, StoreKept, TurnMoves DEF store

LEMMA UnansweredStep ==
    ASSUME IInv, NEW t \in Turns, Unanswered(t)
    PROVE  IInv'
<1> USE DEF Unanswered
<1>1. TypeOK /\ t \in Writers
  BY DEF IInv, Writers
<1>2. pc'[t] = "ended" /\ \A v \in Writers \ {t} : pc'[v] = pc[v] /\ at'[v] = at[v]
  BY <1>1, OthersStay
<1>3. WritersOK'
  BY <1>1, WriterLeaves DEF store
<1>4. BoundsOK'
  BY <1>1, TypeParts DEF BoundsOK
<1> QED BY <1>1, <1>2, <1>3, <1>4, StoreKept, TurnMoves DEF store

LEMMA KeepAnswerStep ==
    ASSUME IInv, NEW t \in Turns, KeepAnswer(t)
    PROVE  IInv'
<1> DEFINE c == at[t]
           after == Counted(row, c)
<1>1. TypeOK /\ CounterTellsEmpty /\ TitlesAreSafe /\ ShownIsListed
  BY DEF IInv
<1>2. /\ pc[t] = "answered" /\ row' = after /\ Add(c)
      /\ \/ Leave(t, "ended") /\ UNCHANGED seen
         \/ /\ Goto(t, "titling") /\ UNCHANGED at
            /\ seen' = [seen EXCEPT ![t] = after[c]]
      /\ UNCHANGED <<created, workspaces, cleanups, faults, shown>>
      /\ answers' = answers \cup {t}
  BY DEF KeepAnswer
<1>3. t \in Writers /\ t \notin Studios /\ t \in Running
  BY <1>2, StoreAssumption DEF Writers, Running
<1>4. c \in Created /\ Created' = Created /\ Created \subseteq Convs
  BY <1>1, <1>2, <1>3, CreatedIsConv DEF Created, TypeOK
<1> HIDE DEF c
<1>5. StoreOK' /\ CounterTellsEmpty' /\ ShownIsListed'
  BY <1>2, <1>4, MessageKept
<1>6. BoundsOK'
  BY <1>1, <1>2, TypeParts DEF BoundsOK
<1>7. \A d \in Created : messages[d] > 0 => messages'[d] > 0
  BY <1>1, <1>2, <1>4, OneMore
<1>8. CASE Leave(t, "ended") /\ UNCHANGED seen
  <2>1. pc'[t] = "ended" /\ \A v \in Writers \ {t} : pc'[v] = pc[v] /\ at'[v] = at[v]
    BY <1>1, <1>3, <1>8, OthersStay
  <2>2. WritersOK'
    BY <1>1, <1>2, <1>3, <1>8, WriterLeaves
  <2> QED BY <1>2, <1>3, <1>5, <1>6, <1>7, <1>8, <2>1, <2>2, TurnMoves
<1>9. CASE /\ Goto(t, "titling") /\ UNCHANGED at
           /\ seen' = [seen EXCEPT ![t] = after[c]]
  <2>1. pc'[t] = "titling" /\ \A v \in Writers \ {t} : pc'[v] = pc[v] /\ at'[v] = at[v]
    BY <1>1, <1>3, <1>9, OthersStay
  <2>2. WritersOK'
    BY <1>1, <1>2, <1>3, <1>9, WriterGoes DEF TurnPCs
  <2>3. /\ row[c] \in Rows /\ row[c].total \in Nat /\ after[c] \in Rows
        /\ after[c].archived = row[c].archived /\ after[c].total = row[c].total + 1
    BY <1>1, <1>4, CountedRows, RowParts DEF TypeOK
  <2> HIDE DEF after
  <2>4. seen' \in [Turns -> Rows] /\ seen'[t] = after[c]
        /\ \A x \in Turns \ {t} : seen'[x] = seen[x]
    BY <1>1, <1>9, <2>3 DEF TypeOK
  <2>5. SeenOK'
    BY <1>1, <2>1, <2>4 DEF SeenOK, TypeOK, Writers
  <2>6. TitlesAreSafe'
    <3>1. seen'[t].total > 0
      BY <2>3, <2>4
    <3>2. messages'[at'[t]] > 0
      BY <1>1, <1>2, <1>4, <1>9, OneMore DEF c
    <3>3. at'[t] \in shown' => ~seen'[t].archived
      BY <1>1, <1>2, <1>9, <2>3, <2>4 DEF ShownIsListed, Listed, c
    <3>4. ASSUME NEW x \in Turns \ {t}, pc'[x] = "titling"
          PROVE  /\ seen'[x].total > 0 /\ messages'[at'[x]] > 0
                 /\ at'[x] \in shown' => ~seen'[x].archived
      BY <1>1, <1>2, <1>3, <1>7, <2>1, <2>4, <3>4, TitlesOfOthers
    <3> QED BY <3>1, <3>2, <3>3, <3>4 DEF TitlesAreSafe
  <2> QED BY <1>5, <1>6, <2>2, <2>5, <2>6, TypePartsNext DEF IInv
<1> QED BY <1>2, <1>8, <1>9

\* The row that goes back with the title is one of a conversation with
\* messages, and not an archived one if the conversation has to be listed.
LEMMA SaveTitleStep ==
    ASSUME IInv, NEW t \in Turns, SaveTitle(t)
    PROVE  IInv'
<1> USE DEF SaveTitle
<1> DEFINE c == at[t]
           copy == seen[t]
<1>1. TypeOK /\ CounterTellsEmpty /\ TitlesAreSafe /\ ShownIsListed
  BY DEF IInv
<1>2. t \in Writers /\ t \in Running
  BY DEF Writers, Running
<1>3. c \in Created /\ Created' = Created /\ Created \subseteq Convs
  BY <1>1, <1>2, CreatedIsConv DEF Created, TypeOK
<1>4. /\ copy \in Rows /\ copy.total > 0 /\ messages[c] > 0
      /\ c \in shown => ~copy.archived
  BY <1>1 DEF TitlesAreSafe, TypeOK
<1>5. row' = [row EXCEPT ![c] = copy]
  OBVIOUS
<1> HIDE DEF copy
<1>6. row' \in [Convs -> Rows] /\ row'[c] = copy /\ \A d \in Convs : d # c => row'[d] = row[d]
  BY <1>1, <1>3, <1>4, <1>5 DEF TypeOK
<1>7. pc'[t] = "ended" /\ \A v \in Writers \ {t} : pc'[v] = pc[v] /\ at'[v] = at[v]
  BY <1>1, <1>2, OthersStay
<1> HIDE DEF c
<1>8. TypeOK'
  <2>1. StoreOK'
    BY <1>1, <1>3, <1>6, TypeParts DEF StoreOK
  <2>2. WritersOK'
    BY <1>1, <1>2, WriterLeaves
  <2>3. SeenOK'
    BY <1>1, <1>7, SeenCleared
  <2>4. BoundsOK'
    BY <1>1, TypeParts DEF BoundsOK
  <2> QED BY <2>1, <2>2, <2>3, <2>4, TypePartsNext
<1>9. CounterTellsEmpty'
  BY <1>1, <1>3, <1>4, <1>6 DEF CounterTellsEmpty
<1>10. \A x \in Turns \ {t} : seen'[x] = seen[x]
  BY <1>1 DEF TypeOK
<1>11. TitlesAreSafe'
  BY <1>1, <1>2, <1>7, <1>10, TitlesOfOthers DEF TitlesAreSafe
<1>12. ShownIsListed'
  BY <1>1, <1>3, <1>4, <1>6 DEF ShownIsListed, Listed
<1> QED BY <1>8, <1>9, <1>11, <1>12 DEF IInv

LEMMA NoTitleStep ==
    ASSUME IInv, NEW t \in Turns, NoTitle(t)
    PROVE  IInv'
<1> USE DEF NoTitle
<1>1. TypeOK /\ TitlesAreSafe /\ t \in Writers
  BY DEF IInv, Writers
<1>2. pc'[t] = "ended" /\ \A v \in Writers \ {t} : pc'[v] = pc[v] /\ at'[v] = at[v]
  BY <1>1, OthersStay
<1>3. StoreOK' /\ CounterTellsEmpty' /\ ShownIsListed'
  BY StoreKept
<1>4. WritersOK' /\ SeenOK' /\ BoundsOK'
  BY <1>1, <1>2, WriterLeaves, SeenCleared, TypeParts DEF BoundsOK, store
<1>5. \A x \in Turns \ {t} : seen'[x] = seen[x]
  BY <1>1 DEF TypeOK
<1>6. TitlesAreSafe'
  BY <1>1, <1>2, <1>5, TitlesOfOthers DEF TitlesAreSafe, store
<1> QED BY <1>3, <1>4, <1>6, TypePartsNext DEF IInv

-----------------------------------------------------------------------------
(* The steps of a studio, and the faults.                                  *)

LEMMA OpenStudioStep ==
    ASSUME IInv, NEW s \in Studios, NEW c \in Convs, NEW place \in Offered,
           OpenStudio(s, c, place)
    PROVE  IInv'
<1>1. TypeOK /\ CounterTellsEmpty /\ TitlesAreSafe /\ ShownIsListed
  BY DEF IInv
<1>2. /\ pc[s] = "new" /\ at' = [at EXCEPT ![s] = c] /\ Goto(s, "opened")
      /\ UNCHANGED <<messages, workspaces, seen, cleanups, faults, answers, shown>>
      /\ \/ /\ c = created + 1 /\ created' = c
            /\ row' = [EmptyArchived(ScopeOf(place)) EXCEPT ![c] = NewRow(place)]
         \/ c \in Listed /\ UNCHANGED <<created, row>>
  BY DEF OpenStudio
<1>3. s \in Writers /\ s \notin Turns
  BY StoreAssumption DEF Writers
<1>4. Created' = Created \cup {c} /\ Created \subseteq Convs /\ created' \in 0..MaxConvs
  BY <1>1, <1>2, CreatedIsConv DEF Created, TypeOK, Convs, Listed
<1>5. BoundsOK'
  BY <1>1, <1>2, TypeParts DEF BoundsOK
<1>6. pc'[s] = "opened" /\ \A v \in Writers \ {s} : pc'[v] = pc[v] /\ at'[v] = at[v]
  BY <1>1, <1>2, <1>3, OthersStay
<1>7. WritersOK'
  BY <1>1, <1>2, <1>3, <1>4, WriterMoves DEF Goto, StudioPCs
<1>8. CASE /\ c = created + 1 /\ created' = c
           /\ row' = [EmptyArchived(ScopeOf(place)) EXCEPT ![c] = NewRow(place)]
  <2> DEFINE rows == EmptyArchived(ScopeOf(place))
  <2>1. c \notin Created
    BY <1>1, <1>8 DEF Created, TypeOK
  <2>2. NewRow(place) \in Rows /\ NewRow(place).total = 0
    BY <1>1, NewRowIsRow DEF Offered, Places, TypeOK
  <2>3. /\ rows \in [Convs -> Rows]
        /\ \A d \in Convs :
              /\ rows[d].total = row[d].total
              /\ d \notin Created => rows[d] = row[d]
              /\ ~IsEmpty(d) => rows[d] = row[d]
    BY <1>1, EmptyArchivedRows
  <2>4. row' = [rows EXCEPT ![c] = NewRow(place)]
    BY <1>8
  <2> HIDE DEF rows
  <2>5. /\ row' \in [Convs -> Rows] /\ row'[c].total = 0
        /\ \A d \in Convs : d # c => row'[d] = rows[d]
    BY <2>2, <2>3, <2>4
  <2>6. messages[c] = 0
    BY <1>1, <2>1 DEF TypeOK
  <2>7. StoreOK'
    BY <1>1, <1>2, <1>4, <2>3, <2>5, TypeParts DEF StoreOK
  <2>8. CounterTellsEmpty'
    BY <1>1, <1>2, <1>4, <2>3, <2>5, <2>6 DEF CounterTellsEmpty
  <2>9. ShownIsListed'
    <3> SUFFICES ASSUME NEW d \in shown PROVE d \in Listed' /\ row'[d].total > 0
      BY <1>2 DEF ShownIsListed
    <3>1. d \in Created /\ ~row[d].archived /\ row[d].total > 0
      BY <1>1 DEF ShownIsListed, Listed
    <3>2. row[d].total \in Nat /\ messages[d] \in Nat /\ messages[d] > 0
      BY <1>1, <1>4, <3>1, RowParts DEF CounterTellsEmpty, TypeOK
    <3>3. ~IsEmpty(d)
      BY <3>1, <3>2 DEF IsEmpty
    <3> QED BY <1>4, <2>1, <2>3, <2>5, <3>1, <3>3 DEF Listed
  <2> QED BY <1>2, <1>3, <1>5, <1>6, <1>7, <2>7, <2>8, <2>9, TurnMoves
<1>9. CASE c \in Listed /\ UNCHANGED <<created, row>>
  <2>1. StoreOK' /\ CounterTellsEmpty' /\ ShownIsListed'
    BY <1>2, <1>9, StoreKept DEF store
  <2> QED BY <1>2, <1>3, <1>5, <1>6, <1>7, <2>1, TurnMoves
<1> QED BY <1>2, <1>8, <1>9

LEMMA AddStudioMessageStep ==
    ASSUME IInv, NEW s \in Studios, AddStudioMessage(s)
    PROVE  IInv'
<1> DEFINE c == at[s]
<1>1. TypeOK
  BY DEF IInv
<1>2. /\ \/ pc[s] = "opened" /\ Goto(s, "half") /\ UNCHANGED at
         \/ pc[s] = "half" /\ Leave(s, "ended")
      /\ row' = Counted(row, c) /\ Add(c)
      /\ UNCHANGED <<created, workspaces, seen, cleanups, faults, answers, shown>>
  BY DEF AddStudioMessage
<1>3. s \in Writers /\ s \notin Turns /\ s \in Running /\ pc[s] # "titling"
  BY <1>2, StoreAssumption DEF Writers, Running
<1>4. c \in Created /\ Created \subseteq Convs
  BY <1>1, <1>3, CreatedIsConv DEF TypeOK
<1> HIDE DEF c
<1>5. StoreOK' /\ CounterTellsEmpty' /\ ShownIsListed'
  BY <1>2, <1>4, MessageKept
<1>6. \A d \in Created : messages[d] > 0 => messages'[d] > 0
  BY <1>1, <1>2, <1>4, OneMore
<1>7. BoundsOK'
  BY <1>1, <1>2, TypeParts DEF BoundsOK
<1>8. WritersOK'
  BY <1>1, <1>2, <1>3, WriterGoes, WriterLeaves DEF StudioPCs
<1>9. /\ pc'[s] \in {"half", "ended"}
      /\ \A v \in Writers \ {s} : pc'[v] = pc[v] /\ at'[v] = at[v]
  BY <1>1, <1>2, <1>3, OthersStay
<1> QED BY <1>2, <1>3, <1>5, <1>6, <1>7, <1>8, <1>9, TurnMoves

LEMMA WriteFailsStep ==
    ASSUME IInv, NEW u \in Writers, WriteFails(u)
    PROVE  IInv'
<1> USE DEF WriteFails
<1>1. TypeOK
  BY DEF IInv
<1>2. pc'[u] = "lost" /\ \A v \in Writers \ {u} : pc'[v] = pc[v] /\ at'[v] = at[v]
  BY <1>1, OthersStay
<1>3. WritersOK'
  BY <1>1, WriterLeaves DEF store
<1>4. BoundsOK'
  BY <1>1, StoreAssumption, TypeParts DEF BoundsOK
<1> QED BY <1>1, <1>2, <1>3, <1>4, StoreKept, TurnMoves DEF store

\* Whoever ran is lost: nobody awaits a title.
LEMMA DieStep ==
    ASSUME TypeOK, NEW gone \in SUBSET Writers, Running \subseteq gone, Die(gone)
    PROVE  /\ WritersOK' /\ SeenOK' /\ TitlesAreSafe'
           /\ faults' \in 0..MaxFaults
<1> USE DEF Die
<1>1. \A u \in Writers : pc'[u] \in {"new", "ended", "lost"}
  BY DEF TypeOK, Running
<1>2. WritersOK'
  BY <1>1 DEF WritersOK, Running, TypeOK, TurnPCs, StudioPCs, Writers
<1>3. SeenOK'
  BY NoRowIsRow DEF SeenOK
<1>4. TitlesAreSafe'
  BY <1>1 DEF TitlesAreSafe, Writers
<1>5. faults' \in 0..MaxFaults
  BY StoreAssumption DEF TypeOK
<1> QED BY <1>2, <1>3, <1>4, <1>5

LEMMA CrashStep == ASSUME IInv, Crash PROVE IInv'
<1> USE DEF Crash
<1>1. TypeOK /\ Running \subseteq Writers
  BY DEF IInv, Running
<1>2. WritersOK' /\ SeenOK' /\ TitlesAreSafe' /\ faults' \in 0..MaxFaults
  BY <1>1, DieStep
<1>3. BoundsOK'
  BY <1>1, <1>2, TypeParts DEF BoundsOK
<1> QED BY <1>2, <1>3, StoreKept, TypePartsNext DEF IInv

LEMMA CrashInAskStep ==
    ASSUME IInv, NEW t \in Turns, NEW place \in Offered, CrashInAsk(t, place)
    PROVE  IInv'
<1> USE DEF CrashInAsk
<1> DEFINE c == created + 1
<1>1. TypeOK /\ CounterTellsEmpty /\ ShownIsListed
  BY DEF IInv
<1>2. /\ c \in Convs /\ Created' = Created \cup {c} /\ c \notin Created
      /\ Created \subseteq Convs /\ created' \in 0..MaxConvs
  <2>1. created \in Nat /\ created < MaxConvs /\ created' = created + 1 /\ MaxConvs \in Nat
    BY <1>1, StoreAssumption DEF TypeOK
  <2> QED BY <1>1, <2>1, CreatedIsConv DEF Created, Convs
<1>3. WritersOK' /\ SeenOK' /\ TitlesAreSafe' /\ faults' \in 0..MaxFaults
  BY <1>1, DieStep DEF Running, Writers
<1>4. NewRow(place) \in Rows /\ NewRow(place).total = 0
  BY <1>1, NewRowIsRow DEF Offered, Places, TypeOK
<1>5. row' = [row EXCEPT ![c] = NewRow(place)]
  OBVIOUS
<1> HIDE DEF c
<1>6. /\ row' \in [Convs -> Rows] /\ row'[c].total = 0
      /\ \A d \in Convs : d # c => row'[d] = row[d]
  BY ZenonT(40), <1>1, <1>2, <1>4, <1>5 DEF TypeOK
<1>7. messages[c] = 0
  BY <1>1, <1>2 DEF TypeOK
<1>8. StoreOK'
  BY <1>1, <1>2, <1>6, TypeParts DEF StoreOK
<1>9. CounterTellsEmpty'
  BY <1>1, <1>2, <1>6, <1>7 DEF CounterTellsEmpty
<1>10. ShownIsListed'
  BY <1>1, <1>2, <1>6 DEF ShownIsListed, Listed
<1>11. BoundsOK'
  BY <1>1, <1>3, TypeParts DEF BoundsOK
<1> QED BY <1>3, <1>8, <1>9, <1>10, <1>11, TypePartsNext DEF IInv

-----------------------------------------------------------------------------
(* The theorems. *)

LEMMA NextInv == IInv /\ [Next]_vars => IInv'
<1> SUFFICES ASSUME IInv, [Next]_vars PROVE IInv'
  OBVIOUS
<1>1. CASE UNCHANGED vars
  <2>1. TypeOK /\ UNCHANGED <<store, pc, at, seen, cleanups, faults, answers, shown>>
    BY <1>1 DEF IInv, vars
  <2>2. StoreOK' /\ CounterTellsEmpty' /\ ShownIsListed'
    BY <2>1, StoreKept
  <2>3. WritersOK' /\ SeenOK' /\ BoundsOK'
    BY <2>1, WritersStay, TypeParts DEF store, SeenOK, BoundsOK
  <2>4. TitlesAreSafe'
    BY <2>1 DEF IInv, TitlesAreSafe, store
  <2> QED BY <2>2, <2>3, <2>4, TypePartsNext DEF IInv
<1>2. ASSUME NEW scope \in Scopes, ListConversations(scope) PROVE IInv'
  BY <1>2, ListStep
<1>3. ASSUME NEW c \in Convs, DeleteConversation(c) PROVE IInv'
  BY <1>3, DeleteStep
<1>4. ASSUME NEW w \in Workspaces, DeleteWorkspace(w) PROVE IInv'
  BY <1>4, DeleteWorkspaceStep
<1>5. ASSUME NEW old \in SUBSET Listed, Cleanup(old) PROVE IInv'
  BY <1>5, CleanupStep
<1>6. ASSUME NEW t \in Turns, Ask(t) PROVE IInv'
  BY <1>6, AskNewStep, AskAgainStep DEF Ask
<1>7. ASSUME NEW t \in Turns, TurnGoesOn(t) PROVE IInv'
  BY <1>7, AnsweredStep, UnansweredStep, KeepAnswerStep, SaveTitleStep, NoTitleStep
     DEF TurnGoesOn
<1>8. ASSUME NEW s \in Studios, NEW c \in Convs, NEW place \in Offered,
             OpenStudio(s, c, place)
      PROVE  IInv'
  BY <1>8, OpenStudioStep
<1>9. ASSUME NEW s \in Studios, AddStudioMessage(s) PROVE IInv'
  BY <1>9, AddStudioMessageStep
<1>10. ASSUME NEW u \in Writers, WriteFails(u) PROVE IInv'
  BY <1>10, WriteFailsStep
<1>11. CASE Crash
  BY <1>11, CrashStep
<1>12. ASSUME NEW t \in Turns, NEW place \in Offered, CrashInAsk(t, place) PROVE IInv'
  BY <1>12, CrashInAskStep
<1> QED
  BY <1>1, <1>2, <1>3, <1>4, <1>5, <1>6, <1>7, <1>8, <1>9, <1>10, <1>11, <1>12
     DEF Next

\* The strengthened invariant holds in every state: a title is saved with the
\* copy of a row that has messages and is not archived unless it may be.
THEOREM InductiveInvariant == Spec => []IInv
BY InitInv, NextInv, PTL DEF Spec

\* The rows, the messages and the writers keep their types, and a copy of a row
\* exists only while a turn awaits its title.
THEOREM TypeCorrect == Spec => []TypeOK
<1>1. IInv => TypeOK
  BY DEF IInv
<1> QED BY <1>1, InductiveInvariant, PTL

\* The counter of a conversation is zero exactly if it holds no message, so
\* that archive_empty_conversations never hides one that does.
THEOREM CounterIsTrue == Spec => []CounterTellsEmpty
<1>1. IInv => CounterTellsEmpty
  BY DEF IInv
<1> QED BY <1>1, InductiveInvariant, PTL

\* A conversation a chat turn opened is listed until the user removes it.
THEOREM ConversationStaysListed == Spec => []AskedStaysListed
<1>1. IInv => AskedStaysListed
  BY DEF IInv, ShownIsListed, AskedStaysListed
<1> QED BY <1>1, InductiveInvariant, PTL
=============================================================================
