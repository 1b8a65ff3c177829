------------------------- MODULE RedisOrMemoryProofs -------------------------
(***************************************************************************)
(* Theorems about the two components that ask Redis or a memory of their   *)
(* own: OAuthLogin, for any processes, callbacks, codes, times to live and *)
(* number of faults, and RateLimit, for any limit, window, clocks and      *)
(* number of faults.                                                       *)
(***************************************************************************)
EXTENDS OAuthLogin, RateLimit, FiniteSetTheorems, SequenceTheorems,
        WellFoundedInduction, TLAPS

-----------------------------------------------------------------------------
(* The OAuth login: its inductive invariant.                               *)

Holds(s, status) == entry[s].status = status
Filled(s) == ~Holds(s, "none")

\* A callback has a process exactly while it is handled, and a code while it
\* asks; the desktop waits for a process exactly while a result is taken for it.
Roles ==
    /\ \A c \in Callbacks : proc[c] \in IF Handling(c) THEN Procs ELSE {None}
    /\ \A c \in Callbacks : pc[c] = "asking" => code[c] \in Codes
    /\ IF desk = "taking" THEN by \in Procs /\ got \in Consumed
                          ELSE by = None /\ got = "none"

\* Nothing is stored and nobody calls before the login is started.
NotStarted ==
    desk = "off" =>
        /\ age = 0 /\ ~polled /\ handled = {}
        /\ \A s \in Stores : entry[s] = Absent
        /\ \A c \in Callbacks : pc[c] = "new"

Calm == faults = 0 /\ ~overlapped

\* As long as no store fails and no callbacks overlap, the login is in one store,
\* and the state is pending there until the one callback that handles it, or
\* handled it, has stored its result.
OneResult ==
    Calm =>
        /\ \A p \in Procs : backend[p] = Initial(p)
        /\ desk # "refused"
        /\ \A s, t \in Stores : Filled(s) /\ Filled(t) => s = t
        /\ \A c, d \in Callbacks : Handling(c) /\ Handling(d) => c = d
        /\ \A c \in Callbacks : Handling(c) =>
              handled = {} /\ \A s \in Stores : Filled(s) => s = backend[proc[c]]
        /\ \A c, d \in handled : c = d
        /\ \A s \in Stores : Filled(s) => (Holds(s, "pending") <=> handled = {})

\* A result is deleted from the one store that has it before the desktop is
\* logged in.
TakenFromItsStore ==
    Calm =>
        /\ desk \in {"taking", "in"} => handled # {}
        /\ desk = "taking" => \A s \in Stores : Filled(s) => s = backend[by]
        /\ desk = "in" => \A s \in Stores : ~Filled(s)

IInv == TypeOK /\ Roles /\ NotStarted /\ OneResult /\ TakenFromItsStore

\* All processes look into one store.
OneStore == Backend = "redis" \/ \A p, q \in Procs : p = q

\* Nor does an answer come after the last poll, or get lost.
Good == Calm /\ ~late /\ ~lost

\* Then the desktop polls until it finds the result, which is there for longer
\* than it takes to poll again.
KeepsPolling ==
    Good =>
        /\ handled = {} /\ desk # "off" /\ age < PendingTTL =>
              /\ desk = "polling"
              /\ \A p \in Procs : entry[backend[p]] =
                    [status |-> "pending", left |-> PendingTTL - age]
        /\ shown => handled # {} /\ desk \in {"polling", "taking", "in"}
        /\ shown /\ desk = "polling" =>
              /\ age < PendingTTL /\ (polled => age + 1 < PendingTTL)
              /\ \A p \in Procs : Holds(backend[p], "success")
              /\ polled => \A p \in Procs : entry[backend[p]].left > 1
        /\ shown /\ desk = "taking" => got = "success"

-----------------------------------------------------------------------------
(* The calls to the store.                                                 *)

StoreOK ==
    /\ backend \in [Procs -> Stores]
    /\ entry \in [Stores -> Items]
    /\ faults \in 0..MaxFaults

LEMMA ItemsThere ==
    /\ Absent \in Items /\ Pending \in Items
    /\ \A status \in Statuses : Result(status) \in Items
    /\ \A item \in Items : item = Absent \/ item.status \in Statuses
    /\ \A item \in Items : item.status = "none" => item = Absent
BY LoginAssumption DEF Items, Absent, Pending, Result, Statuses

LEMMA AgedItem ==
    ASSUME NEW item \in Items
    PROVE  /\ Aged(item) \in Items
           /\ item.left <= 1 => Aged(item) = Absent
           /\ item.left > 1 => Aged(item) = [status |-> item.status, left |-> item.left - 1]
BY LoginAssumption DEF Aged, Items, Absent, Statuses

\* Without a fault a call reads, and writes, what its process turns to.
LEMMA ReadDoes ==
    ASSUME TypeOK, NEW p \in Procs, NEW s \in Stores, Reads(p, s)
    PROVE  /\ StoreOK' /\ entry' = entry /\ faults <= faults'
           /\ faults' = 0 => backend' = backend /\ s = backend[p]
BY BackendAssumption DEF TypeOK, StoreOK, Stores, Reads, Degrades, Fault

LEMMA ReadRaisesDoes ==
    ASSUME TypeOK, NEW p \in Procs, ReadRaises(p)
    PROVE  StoreOK' /\ entry' = entry /\ backend' = backend /\ faults' > 0
BY BackendAssumption DEF TypeOK, StoreOK, ReadRaises, Fault

LEMMA WriteDoes ==
    ASSUME TypeOK, NEW p \in Procs, NEW item \in Items, Writes(p, item)
    PROVE  /\ StoreOK' /\ faults <= faults'
           /\ faults' = 0 => backend' = backend /\ entry' = [entry EXCEPT ![backend[p]] = item]
BY BackendAssumption DEF TypeOK, StoreOK, Stores, Writes, Written, Degrades, Fault

LEMMA WriteRaisesDoes ==
    ASSUME TypeOK, NEW p \in Procs, NEW item \in Items, WriteRaises(p, item)
    PROVE  StoreOK' /\ faults' > 0
BY BackendAssumption DEF TypeOK, StoreOK, Stores, WriteRaises, Written, Fault

-----------------------------------------------------------------------------
(* The types.                                                              *)

RestOK ==
    /\ age \in 0..MaxAge /\ required \in BOOLEAN
    /\ desk \in DeskStates /\ polled \in BOOLEAN
    /\ by \in Procs \cup {None} /\ got \in Statuses \cup {"none"}
    /\ pc \in [Callbacks -> PCs]
    /\ proc \in [Callbacks -> Procs \cup {None}]
    /\ code \in [Callbacks -> Codes \cup {None}]
    /\ spent \subseteq Codes /\ handled \subseteq Callbacks
    /\ shown \in BOOLEAN /\ overlapped \in BOOLEAN /\ late \in BOOLEAN /\ lost \in BOOLEAN

LEMMA TypeParts == TypeOK <=> StoreOK /\ RestOK
BY DEF TypeOK, StoreOK, RestOK

LEMMA TypePartsNext == TypeOK' <=> StoreOK' /\ RestOK'
BY DEF TypeOK, StoreOK, RestOK

LEMMA InitInv == Init => IInv
<1> SUFFICES ASSUME Init PROVE IInv
  OBVIOUS
<1> USE DEF Init
<1>1. TypeOK
  <2>1. StoreOK
    BY BackendAssumption, ItemsThere DEF StoreOK, Stores, Initial
  <2>2. age \in 0..MaxAge
    BY LoginAssumption
  <2>3. required \in BOOLEAN
    BY LoginAssumption
  <2>4. pc \in [Callbacks -> PCs]
    BY DEF PCs
  <2>5. desk \in DeskStates
    BY DEF DeskStates
  <2>6. RestOK
    BY <2>2, <2>3, <2>4, <2>5 DEF RestOK
  <2> QED BY <2>1, <2>6, TypeParts
<1>2. Roles /\ NotStarted
  BY DEF Roles, NotStarted, Handling
<1>3. OneResult /\ TakenFromItsStore
  BY DEF OneResult, TakenFromItsStore, Filled, Holds, Absent, Handling
<1> QED BY <1>1, <1>2, <1>3 DEF IInv

LEMMA StartType ==
    ASSUME IInv, NEW p \in Procs, Start(p)
    PROVE  TypeOK' /\ Roles' /\ NotStarted'
<1> USE DEF IInv, Start, callbacks
<1>1. StoreOK'
  BY ItemsThere, WriteDoes, WriteRaisesDoes
<1>2. RestOK'
  BY TypeParts DEF RestOK, DeskStates
<1>3. Roles' /\ NotStarted'
  BY DEF Roles, NotStarted, Handling
<1> QED BY <1>1, <1>2, <1>3, TypePartsNext

LEMMA PollType ==
    ASSUME IInv, NEW p \in Procs, Poll(p)
    PROVE  TypeOK' /\ Roles' /\ NotStarted'
<1> USE DEF IInv, Poll, Polling, Found, callbacks
<1>1. StoreOK'
  BY ReadDoes, ReadRaisesDoes
<1>2. RestOK'
  BY TypeParts DEF RestOK, DeskStates, Consumed, Statuses
<1>3. Roles' /\ NotStarted'
  BY LoginAssumption DEF Roles, NotStarted, Handling
<1> QED BY <1>1, <1>2, <1>3, TypePartsNext

LEMMA TakeType ==
    ASSUME IInv, NEW p \in Procs, Take(p)
    PROVE  TypeOK' /\ Roles' /\ NotStarted'
<1> USE DEF IInv, Take, callbacks
<1>1. StoreOK'
  BY ItemsThere, WriteDoes, WriteRaisesDoes
<1>2. desk' \in {"in", "polling", "failed"}
  OBVIOUS
<1>3. RestOK'
  BY <1>2, TypeParts DEF RestOK, DeskStates
<1>4. Roles' /\ NotStarted'
  BY <1>2 DEF Roles, NotStarted, Handling
<1> QED BY <1>1, <1>3, <1>4, TypePartsNext

LEMMA DeskType ==
    ASSUME IInv, PollLost \/ GiveUp
    PROVE  TypeOK' /\ Roles' /\ NotStarted'
<1> USE DEF IInv, PollLost, GiveUp, stores, callbacks
<1>1. StoreOK'
  BY TypeParts DEF StoreOK
<1>2. RestOK'
  BY TypeParts DEF RestOK, DeskStates
<1>3. Roles' /\ NotStarted'
  BY DEF Roles, NotStarted, Handling
<1> QED BY <1>1, <1>2, <1>3, TypePartsNext

LEMMA BeginType ==
    ASSUME IInv, NEW c \in Callbacks, NEW p \in Procs, NEW k \in Codes \cup {None},
           Begin(c, p, k)
    PROVE  TypeOK' /\ Roles' /\ NotStarted'
<1> USE DEF IInv, Begin, Ends, desktop
<1>1. StoreOK'
  BY ReadDoes, ReadRaisesDoes
<1>2. RestOK'
  BY ZenonT(40), TypeParts DEF RestOK, PCs
<1>3. Roles'
  BY LoginAssumption, TypeParts DEF Roles, Handling, RestOK
<1>4. NotStarted'
  BY DEF NotStarted
<1> QED BY <1>1, <1>2, <1>3, <1>4, TypePartsNext

LEMMA ExchangeType ==
    ASSUME IInv, NEW c \in Callbacks, Exchange(c)
    PROVE  TypeOK' /\ Roles' /\ NotStarted'
<1> USE DEF IInv, Exchange, stores, desktop
<1>1. StoreOK'
  BY TypeParts DEF StoreOK
<1>2. RestOK'
  BY TypeParts DEF RestOK, PCs, Roles
<1>3. Roles'
  BY TypeParts DEF Roles, Handling, RestOK
<1>4. NotStarted'
  BY DEF NotStarted
<1> QED BY <1>1, <1>2, <1>3, <1>4, TypePartsNext

LEMMA CompleteType ==
    ASSUME IInv, NEW c \in Callbacks, Complete(c)
    PROVE  TypeOK' /\ Roles' /\ NotStarted'
<1> USE DEF IInv, Complete, Ends, desktop
<1>1. proc[c] \in Procs
  BY DEF Roles, Handling
<1>2. StoreOK'
  BY <1>1, ItemsThere, WriteDoes, WriteRaisesDoes DEF Verdicts, Statuses
<1>3. RestOK'
  <2>1. shown' \in BOOLEAN /\ late' \in BOOLEAN
    BY TypeParts DEF RestOK
  <2>2. handled' \subseteq Callbacks
    BY TypeParts DEF RestOK
  <2> QED BY <2>1, <2>2, TypeParts DEF RestOK, PCs
<1>4. Roles'
  BY TypeParts DEF Roles, Handling, RestOK
<1>5. NotStarted'
  BY DEF NotStarted
<1> QED BY <1>2, <1>3, <1>4, <1>5, TypePartsNext

LEMMA RestartType ==
    ASSUME IInv, NEW p \in Procs, Restart(p)
    PROVE  TypeOK' /\ Roles' /\ NotStarted'
<1> USE DEF IInv, Restart
<1>1. StoreOK'
  BY BackendAssumption, ItemsThere, TypeParts DEF StoreOK, Fault, Written, Initial, Stores
<1>2. RestOK'
  BY TypeParts DEF RestOK, PCs, DeskStates
<1>3. Roles'
  BY LoginAssumption, TypeParts DEF Roles, Handling, RestOK
<1>4. NotStarted'
  BY DEF NotStarted
<1> QED BY <1>1, <1>2, <1>3, <1>4, TypePartsNext

LEMMA TickType ==
    ASSUME IInv, Tick
    PROVE  TypeOK' /\ Roles' /\ NotStarted'
<1> USE DEF IInv, Tick, callbacks
<1>1. StoreOK'
  BY AgedItem, TypeParts DEF StoreOK
<1>2. RestOK'
  <2>1. age' \in 0..MaxAge
    BY LoginAssumption, TypeParts DEF RestOK
  <2> QED BY <2>1, TypeParts DEF RestOK
<1>3. Roles' /\ NotStarted'
  BY DEF Roles, NotStarted, Handling
<1> QED BY <1>1, <1>2, <1>3, TypePartsNext

-----------------------------------------------------------------------------
(* One result, in one store.                                               *)

USE DEF Calm, Filled, Holds

LEMMA StartCalm ==
    ASSUME IInv, NEW p \in Procs, Start(p)
    PROVE  OneResult' /\ TakenFromItsStore'
<1> USE DEF IInv, Start, callbacks
<1>1. SUFFICES ASSUME Calm' PROVE OneResult' /\ TakenFromItsStore'
  BY DEF OneResult, TakenFromItsStore
<1>2. /\ desk' = "polling" /\ faults = 0
      /\ backend' = backend /\ entry' = [entry EXCEPT ![backend[p]] = Pending]
  BY <1>1, ItemsThere, WriteDoes, WriteRaisesDoes DEF TypeOK
<1>3. /\ \A q \in Procs : backend[q] = Initial(q)
      /\ handled = {} /\ \A c \in Callbacks : ~Handling(c)
      /\ \A s \in Stores : ~Filled(s)
  BY <1>1, <1>2 DEF NotStarted, OneResult, Absent, Handling
<1>4. \A s \in Stores : Filled(s)' => s = backend[p] /\ Holds(s, "pending")'
  BY <1>2, <1>3 DEF Pending, TypeOK
<1>5. OneResult'
  BY <1>2, <1>3, <1>4 DEF OneResult, Initial, Handling
<1>6. TakenFromItsStore'
  BY <1>2 DEF TakenFromItsStore
<1> QED BY <1>5, <1>6

LEMMA PollCalm ==
    ASSUME IInv, NEW p \in Procs, Poll(p)
    PROVE  OneResult' /\ TakenFromItsStore'
<1> USE DEF IInv, Poll, Polling, callbacks
<1>1. SUFFICES ASSUME Calm' PROVE OneResult' /\ TakenFromItsStore'
  BY DEF OneResult, TakenFromItsStore
<1>2. /\ faults = 0 /\ backend' = backend /\ entry' = entry
      /\ Found(p, entry[backend[p]].status)
  BY <1>1, ReadDoes, ReadRaisesDoes DEF TypeOK
<1>3. desk' # "refused" /\ desk' # "in"
  BY <1>2 DEF Found, Consumed
<1>4. OneResult'
  BY <1>1, <1>2, <1>3 DEF OneResult, Initial, Handling
<1>5. TakenFromItsStore'
  <2>1. CASE desk' = "taking"
    <3>1. backend[p] \in Stores
      BY DEF TypeOK
    <3>2. by' = p /\ entry[backend[p]].status \in Consumed
      BY <1>2, <2>1 DEF Found
    <3> QED BY <1>1, <1>2, <1>3, <3>1, <3>2 DEF TakenFromItsStore, OneResult, Consumed
  <2> QED BY <2>1, <1>3 DEF TakenFromItsStore
<1> QED BY <1>4, <1>5

LEMMA TakeCalm ==
    ASSUME IInv, NEW p \in Procs, Take(p)
    PROVE  OneResult' /\ TakenFromItsStore'
<1> USE DEF IInv, Take, callbacks
<1>1. SUFFICES ASSUME Calm' PROVE OneResult' /\ TakenFromItsStore'
  BY DEF OneResult, TakenFromItsStore
<1>2. /\ faults = 0 /\ backend' = backend
      /\ entry' = [entry EXCEPT ![backend[p]] = Absent]
      /\ desk' \in {"in", "polling", "failed"}
  BY <1>1, ItemsThere, WriteDoes, WriteRaisesDoes DEF TypeOK
<1>3. \A s \in Stores : ~Filled(s)'
  BY <1>1, <1>2 DEF TakenFromItsStore, Absent, TypeOK
<1>4. OneResult'
  BY <1>1, <1>2, <1>3 DEF OneResult, Initial, Handling
<1>5. TakenFromItsStore'
  BY <1>1, <1>2, <1>3 DEF TakenFromItsStore
<1> QED BY <1>4, <1>5

LEMMA DeskCalm ==
    ASSUME IInv, PollLost \/ GiveUp
    PROVE  OneResult' /\ TakenFromItsStore'
BY DEF IInv, PollLost, GiveUp, stores, callbacks, OneResult, TakenFromItsStore, Initial, Handling

LEMMA BeginCalm ==
    ASSUME IInv, NEW c \in Callbacks, NEW p \in Procs, NEW k \in Codes \cup {None},
           Begin(c, p, k)
    PROVE  OneResult' /\ TakenFromItsStore'
<1> USE DEF IInv, Begin, desktop
<1>1. SUFFICES ASSUME Calm' PROVE OneResult' /\ TakenFromItsStore'
  BY DEF OneResult, TakenFromItsStore
<1>2. faults = 0 /\ backend' = backend /\ entry' = entry /\ ~overlapped
  BY <1>1, ReadDoes, ReadRaisesDoes DEF TypeOK
<1>3. TakenFromItsStore'
  BY <1>1, <1>2 DEF TakenFromItsStore
<1>4. CASE /\ MayHandle(entry[backend[p]].status)
           /\ pc' = [pc EXCEPT ![c] = IF k = None THEN "refusing" ELSE "asking"]
           /\ proc' = [proc EXCEPT ![c] = p]
           /\ \A d \in Callbacks : ~Handling(d)
  <2>1. backend[p] \in Stores /\ Holds(backend[p], "pending")
    BY <1>4 DEF MayHandle, TypeOK
  <2>2. handled = {} /\ \A s \in Stores : Filled(s) => s = backend[p]
    BY <1>2, <2>1 DEF OneResult
  <2>3. \A d \in Callbacks : Handling(d)' => d = c
    BY <1>4 DEF Handling, TypeOK
  <2>4. proc'[c] = p
    BY <1>4 DEF TypeOK
  <2> QED BY <1>2, <1>3, <2>2, <2>3, <2>4 DEF OneResult, Initial
<1>5. CASE Ends(c)
  BY <1>2, <1>3, <1>5 DEF OneResult, Initial, Handling, Ends, TypeOK
<1>6. \A s \in Stores : Reads(p, s) => s = backend[p]
  BY <1>1, ReadDoes
<1> QED BY <1>1, <1>4, <1>5, <1>6

LEMMA ExchangeCalm ==
    ASSUME IInv, NEW c \in Callbacks, Exchange(c)
    PROVE  OneResult' /\ TakenFromItsStore'
<1> USE DEF IInv, Exchange, stores, desktop
<1>1. \A d \in Callbacks : Handling(d)' <=> Handling(d)
  BY DEF Handling, TypeOK
<1> QED BY <1>1 DEF OneResult, TakenFromItsStore, Initial

LEMMA CompleteCalm ==
    ASSUME IInv, NEW c \in Callbacks, Complete(c)
    PROVE  OneResult' /\ TakenFromItsStore'
<1> USE DEF IInv, Complete, desktop
<1> DEFINE s == backend[proc[c]]
<1>1. SUFFICES ASSUME Calm' PROVE OneResult' /\ TakenFromItsStore'
  BY DEF OneResult, TakenFromItsStore
<1>2. Handling(c) /\ proc[c] \in Procs /\ s \in Stores
  BY DEF Handling, Roles, TypeOK
<1>3. PICK status \in Verdicts(c) :
        \/ Writes(proc[c], Result(status)) /\ handled' = handled \cup {c}
        \/ WriteRaises(proc[c], Result(status))
  OBVIOUS
<1>4. status \in Statuses /\ status # "pending"
  BY DEF Verdicts, Statuses
<1>5. /\ faults = 0 /\ backend' = backend /\ handled' = handled \cup {c}
      /\ entry' = [entry EXCEPT ![s] = Result(status)]
  BY <1>1, <1>2, <1>3, <1>4, ItemsThere, WriteDoes, WriteRaisesDoes DEF TypeOK
<1>6. handled = {} /\ \A t \in Stores : Filled(t) => t = s
  BY <1>1, <1>2, <1>5 DEF OneResult
<1>7. \A t \in Stores : Filled(t)' => t = s /\ ~Holds(t, "pending")'
  BY <1>2, <1>4, <1>5, <1>6 DEF Result, TypeOK
<1>8. \A d \in Callbacks : ~Handling(d)'
  BY <1>1, <1>2, <1>5 DEF OneResult, Handling, Ends, TypeOK
<1>9. OneResult'
  BY <1>1, <1>5, <1>6, <1>7, <1>8 DEF OneResult, Initial
<1>10. TakenFromItsStore'
  BY <1>1, <1>5, <1>6 DEF TakenFromItsStore
<1> QED BY <1>9, <1>10

LEMMA RestartCalm ==
    ASSUME IInv, NEW p \in Procs, Restart(p)
    PROVE  OneResult' /\ TakenFromItsStore'
BY DEF IInv, TypeOK, Restart, Fault, OneResult, TakenFromItsStore

LEMMA TickCalm ==
    ASSUME IInv, Tick
    PROVE  OneResult' /\ TakenFromItsStore'
<1> USE DEF IInv, Tick, callbacks
<1>1. ASSUME NEW s \in Stores, Filled(s)'
      PROVE  Filled(s) /\ (Holds(s, "pending")' <=> Holds(s, "pending"))
  <2>1. entry[s] \in Items /\ entry'[s] = Aged(entry[s])
    BY DEF TypeOK
  <2>2. Aged(entry[s]) # Absent
    BY <1>1, <2>1 DEF Absent
  <2>3. entry'[s].status = entry[s].status
    BY <2>1, <2>2, AgedItem DEF Items, Absent
  <2> QED BY <1>1, <2>3
<1>2. OneResult'
  BY <1>1 DEF OneResult, Initial, Handling
<1>3. TakenFromItsStore'
  BY <1>1 DEF TakenFromItsStore
<1> QED BY <1>2, <1>3

-----------------------------------------------------------------------------
(* The desktop polls until it has the result.                              *)

USE DEF Good

LEMMA SameStore ==
    ASSUME OneStore, IInv, Calm, NEW p \in Procs, NEW q \in Procs
    PROVE  backend[p] = backend[q]
BY DEF OneStore, IInv, OneResult, Initial

LEMMA StartPolls ==
    ASSUME OneStore, IInv, KeepsPolling, NEW p \in Procs, Start(p)
    PROVE  KeepsPolling'
<1> USE DEF IInv, Start, callbacks
<1>1. SUFFICES ASSUME Good' PROVE KeepsPolling'
  BY DEF KeepsPolling
<1>2. /\ desk' = "polling" /\ faults = 0
      /\ backend' = backend /\ entry' = [entry EXCEPT ![backend[p]] = Pending]
  BY <1>1, ItemsThere, WriteDoes, WriteRaisesDoes DEF TypeOK
<1>3. \A q \in Procs : backend[q] = backend[p]
  BY <1>1, <1>2, SameStore
<1>4. age = 0 /\ handled = {} /\ ~shown
  BY <1>1, <1>2 DEF NotStarted, KeepsPolling
<1> QED BY <1>2, <1>3, <1>4, LoginAssumption DEF KeepsPolling, Pending, TypeOK

LEMMA PollPolls ==
    ASSUME OneStore, IInv, KeepsPolling, NEW p \in Procs, Poll(p)
    PROVE  KeepsPolling'
<1> USE DEF IInv, Poll, Polling, callbacks
<1>1. SUFFICES ASSUME Good' PROVE KeepsPolling'
  BY DEF KeepsPolling
<1>2. /\ faults = 0 /\ backend' = backend /\ entry' = entry
      /\ Found(p, entry[backend[p]].status)
  BY <1>1, ReadDoes, ReadRaisesDoes DEF TypeOK
<1>3. CASE handled = {}
  <2>1. Holds(backend[p], "pending") /\ ~shown
    BY <1>1, <1>2, <1>3 DEF KeepsPolling
  <2> QED BY <1>1, <1>2, <1>3, <2>1 DEF KeepsPolling, Found, Consumed
<1>4. CASE handled # {} /\ shown
  <2>1. Holds(backend[p], "success")
    BY <1>1, <1>2, <1>4 DEF KeepsPolling
  <2> QED BY <1>1, <1>2, <1>4, <2>1 DEF KeepsPolling, Found, Consumed
<1>5. CASE handled # {} /\ ~shown
  BY <1>5 DEF KeepsPolling
<1> QED BY <1>3, <1>4, <1>5

LEMMA TakePolls ==
    ASSUME OneStore, IInv, KeepsPolling, NEW p \in Procs, Take(p)
    PROVE  KeepsPolling'
<1> USE DEF IInv, Take, callbacks
<1>1. SUFFICES ASSUME Good' PROVE KeepsPolling'
  BY DEF KeepsPolling
<1>2. faults = 0 /\ handled # {}
  BY <1>1, ItemsThere, WriteDoes, WriteRaisesDoes DEF TypeOK, TakenFromItsStore
<1>3. shown => desk' = "in"
  <2>1. shown => got = "success"
    BY <1>1, <1>2 DEF KeepsPolling
  <2> QED BY <1>1, <2>1, ItemsThere, WriteRaisesDoes
<1> QED BY <1>2, <1>3 DEF KeepsPolling

LEMMA DeskPolls ==
    ASSUME KeepsPolling, TypeOK, PollLost \/ GiveUp
    PROVE  KeepsPolling'
<1>1. CASE PollLost
  BY <1>1 DEF PollLost, KeepsPolling
<1>2. CASE GiveUp
  <2>1. age \in Nat /\ PendingTTL \in Nat /\ age >= PendingTTL
    BY <1>2, LoginAssumption DEF TypeOK, GiveUp
  <2> QED BY <1>2, <2>1 DEF GiveUp, stores, callbacks, KeepsPolling
<1> QED BY <1>1, <1>2

LEMMA BeginPolls ==
    ASSUME IInv, KeepsPolling,
           NEW c \in Callbacks, NEW p \in Procs, NEW k \in Codes \cup {None}, Begin(c, p, k)
    PROVE  KeepsPolling'
<1> USE DEF IInv, Begin, desktop
<1>1. SUFFICES ASSUME Good' PROVE KeepsPolling'
  BY DEF KeepsPolling
<1>2. faults = 0 /\ backend' = backend /\ entry' = entry /\ ~overlapped
  BY <1>1, ReadDoes, ReadRaisesDoes DEF TypeOK
<1> QED BY <1>1, <1>2 DEF KeepsPolling

LEMMA ExchangePolls ==
    ASSUME KeepsPolling, NEW c \in Callbacks, Exchange(c)
    PROVE  KeepsPolling'
BY DEF Exchange, stores, desktop, KeepsPolling

LEMMA CompletePolls ==
    ASSUME OneStore, ResultTTL > 1, IInv, KeepsPolling, NEW c \in Callbacks, Complete(c)
    PROVE  KeepsPolling'
<1> USE DEF IInv, Complete, desktop
<1> DEFINE s == backend[proc[c]]
<1>1. SUFFICES ASSUME Good' PROVE KeepsPolling'
  BY DEF KeepsPolling
<1>2. Handling(c) /\ proc[c] \in Procs /\ s \in Stores
  BY DEF Handling, Roles, TypeOK
<1>3. PICK status \in Verdicts(c) :
        \/ /\ Writes(proc[c], Result(status)) /\ handled' = handled \cup {c}
           /\ shown' = (shown \/ status = "success")
        \/ WriteRaises(proc[c], Result(status))
  OBVIOUS
<1>4. status \in Statuses
  BY DEF Verdicts, Statuses
<1>5. /\ faults = 0 /\ backend' = backend /\ handled' = handled \cup {c}
      /\ entry' = [entry EXCEPT ![s] = Result(status)]
      /\ shown' = (shown \/ status = "success")
  BY <1>1, <1>2, <1>3, <1>4, ItemsThere, WriteDoes, WriteRaisesDoes DEF TypeOK
<1>6. \A q \in Procs : backend[q] = s
  BY <1>1, <1>2, <1>5, SameStore
<1>7. handled = {} /\ ~late /\ desk # "off"
  BY <1>1, <1>2, <1>5 DEF OneResult, NotStarted, Handling
<1>8. age < PendingTTL /\ (polled => age + 1 < PendingTTL)
  <2>1. ~(age >= PendingTTL) /\ ~(polled /\ age + 1 = PendingTTL)
    BY <1>1
  <2>2. age \in Nat /\ PendingTTL \in Nat
    BY LoginAssumption DEF TypeOK
  <2> QED BY <2>1, <2>2
<1>9. desk = "polling" /\ ~shown
  BY <1>1, <1>5, <1>7, <1>8 DEF KeepsPolling
<1>10. shown' => \A q \in Procs : entry'[backend'[q]] = [status |-> "success", left |-> ResultTTL]
  BY <1>2, <1>5, <1>6, <1>9 DEF Result, TypeOK
<1> QED BY <1>5, <1>7, <1>8, <1>9, <1>10, LoginAssumption DEF KeepsPolling

LEMMA RestartPolls ==
    ASSUME TypeOK, NEW p \in Procs, Restart(p)
    PROVE  KeepsPolling'
BY DEF TypeOK, Restart, Fault, KeepsPolling

LEMMA TickPolls ==
    ASSUME IInv, KeepsPolling, Tick
    PROVE  KeepsPolling'
<1> USE DEF IInv, Tick, callbacks
<1>1. SUFFICES ASSUME Good' PROVE KeepsPolling'
  BY DEF KeepsPolling
<1>2. /\ Good /\ backend' = backend /\ age' = age + 1 /\ ~polled'
      /\ age \in Nat /\ PendingTTL \in Nat
  BY <1>1, LoginAssumption DEF TypeOK
<1>3. \A p \in Procs : /\ backend[p] \in Stores /\ entry[backend[p]] \in Items
                       /\ entry'[backend[p]] = Aged(entry[backend[p]])
  BY DEF TypeOK
<1>4. ASSUME handled = {}, age' < PendingTTL
      PROVE  \A p \in Procs : entry'[backend[p]] =
                [status |-> "pending", left |-> PendingTTL - age']
  BY <1>2, <1>3, <1>4, AgedItem DEF KeepsPolling
<1>5. ASSUME shown, desk = "polling"
      PROVE  \A p \in Procs : Holds(backend[p], "success")'
  BY <1>2, <1>3, <1>5, AgedItem DEF KeepsPolling
<1> QED BY <1>2, <1>4, <1>5 DEF KeepsPolling

-----------------------------------------------------------------------------
(* The theorems.                                                           *)

LEMMA NextInv == IInv /\ [Next]_vars => IInv'
<1> SUFFICES ASSUME IInv, [Next]_vars PROVE IInv'
  OBVIOUS
<1>1. ASSUME NEW p \in Procs, Start(p) \/ Poll(p) \/ Take(p) \/ Restart(p) PROVE IInv'
  BY <1>1, StartType, PollType, TakeType, RestartType, StartCalm, PollCalm, TakeCalm,
     RestartCalm DEF IInv
<1>2. ASSUME NEW p \in Procs, NEW c \in Callbacks, NEW k \in Codes \cup {None}, Begin(c, p, k)
      PROVE  IInv'
  BY <1>2, BeginType, BeginCalm DEF IInv
<1>3. ASSUME NEW c \in Callbacks, Exchange(c) \/ Complete(c) PROVE IInv'
  BY <1>3, ExchangeType, ExchangeCalm, CompleteType, CompleteCalm DEF IInv
<1>4. CASE PollLost \/ GiveUp \/ Tick
  BY <1>4, DeskType, DeskCalm, TickType, TickCalm DEF IInv
<1>5. CASE UNCHANGED vars
  BY <1>5 DEF IInv, TypeOK, Roles, NotStarted, OneResult, TakenFromItsStore, Handling,
              vars, stores, desktop, callbacks
<1> QED BY <1>1, <1>2, <1>3, <1>4, <1>5 DEF Next

LEMMA PollingInv ==
    ASSUME OneStore, ResultTTL > 1
    PROVE  IInv /\ KeepsPolling /\ [Next]_vars => KeepsPolling'
<1> SUFFICES ASSUME IInv, KeepsPolling, [Next]_vars PROVE KeepsPolling'
  OBVIOUS
<1>1. TypeOK
  BY DEF IInv
<1>2. ASSUME NEW p \in Procs, Start(p) \/ Poll(p) \/ Take(p) \/ Restart(p)
      PROVE  KeepsPolling'
  BY <1>1, <1>2, StartPolls, PollPolls, TakePolls, RestartPolls
<1>3. ASSUME NEW p \in Procs, NEW c \in Callbacks, NEW k \in Codes \cup {None}, Begin(c, p, k)
      PROVE  KeepsPolling'
  BY <1>3, BeginPolls
<1>4. ASSUME NEW c \in Callbacks, Exchange(c) \/ Complete(c) PROVE KeepsPolling'
  BY <1>4, ExchangePolls, CompletePolls
<1>5. CASE PollLost \/ GiveUp \/ Tick
  BY <1>1, <1>5, DeskPolls, TickPolls
<1>6. CASE UNCHANGED vars
  BY <1>6 DEF KeepsPolling, vars, stores, desktop, callbacks
<1> QED BY <1>2, <1>3, <1>4, <1>5, <1>6 DEF Next

\* The login is in one store, and has one result, until a store fails or two
\* callbacks overlap.
THEOREM InductiveInvariant == Spec => []IInv
BY InitInv, NextInv, PTL DEF Spec

\* The desktop, the callbacks and the stores have their types.
THEOREM TypeCorrect == Spec => []TypeOK
<1>1. IInv => TypeOK
  BY DEF IInv
<1> QED BY <1>1, InductiveInvariant, PTL

\* "OAuth session was already handled": one callback of a login stores a result.
THEOREM OneCallbackHandles == Spec => []HandledOnce
<1>1. IInv => HandledOnce
  BY DEF IInv, TypeOK, OneResult, HandledOnce
<1> QED BY <1>1, InductiveInvariant, PTL

\* No store keeps a token the desktop has been given.
THEOREM TokenIsGone == Spec => []TokenIsTaken
<1>1. IInv => TokenIsTaken
  BY DEF IInv, TypeOK, TakenFromItsStore, TokenIsTaken
<1> QED BY <1>1, InductiveInvariant, PTL

\* "login completed. You can return to PigTex now.": it is, where all processes
\* look into one store and a result is kept for longer than it takes to poll.
THEOREM CompletedIsSeen == OneStore /\ ResultTTL > 1 => (Spec => []CompletedReaches)
<1> SUFFICES ASSUME OneStore, ResultTTL > 1 PROVE Spec => []CompletedReaches
  OBVIOUS
<1>1. Init => KeepsPolling
  BY DEF Init, KeepsPolling
<1>2. IInv /\ KeepsPolling /\ [Next]_vars => KeepsPolling'
  BY PollingInv
<1>3. IInv /\ KeepsPolling => CompletedReaches
  BY DEF IInv, TypeOK, KeepsPolling, CompletedReaches
<1> QED BY <1>1, <1>2, <1>3, InductiveInvariant, PTL DEF Spec

-----------------------------------------------------------------------------
(* The rate limiter: its inductive invariant.                              *)

InOrder(times) == \A i, j \in 1..Len(times) : i <= j => times[i] <= times[j]
Past(times) == \A i \in 1..Len(times) : times[i] <= now

\* A deque has, of the current window, exactly what its process admitted.
DequesTell ==
    \A p \in Procs :
        /\ InOrder(deque[p]) /\ Past(deque[p])
        /\ \A c \in Int : c >= now - Window => After(admitted[p], c) = After(deque[p], c)

Members(z) ==
    /\ z \subseteq [score : Nat, member : 1..Limit]
    /\ IsFiniteSet(z) /\ Cardinality(z) <= Limit

ScoredAfter(z, at) == {e \in z : e.score > at}

\* A set has, of the time that is in the window by every clock, no fewer events
\* than Redis admitted, by the slowest of the clocks.
Covers(z) ==
    \A c \in Int : c >= now - Window + MaxSkew =>
        After(admitted[Redis], c) <= Cardinality(ScoredAfter(z, c + Slowest))

\* And no more, of the time that is in the window by any clock, by the fastest,
\* as long as no script ran for nothing.
Reflects(z) ==
    \A c \in Int : c >= now - Window - MaxSkew =>
        Cardinality(ScoredAfter(z, c + Fastest)) <= After(admitted[Redis], c)

\* When Redis drops the set, what was admitted has left the window.
KeyOutlives ==
    LET end == IF ttl = 0 THEN now ELSE ttl IN
    /\ ttl = 0 => zset = {}
    /\ \A i \in 1..Len(admitted[Redis]) :
          admitted[Redis][i] <= now /\ admitted[Redis][i] <= end - Window

Faultless ==
    faults = 0 => /\ Reflects(zset)
                  /\ \A p \in Procs : backend[p] = Initial(p)

\* Whoever was refused may return when an event that is still in the set has
\* left the window by the fastest clock, unless one has left it already.
PromiseStands ==
    faults = 0 /\ Backend = "redis" =>
        /\ \A p \in Procs : promise[p] = 0
        /\ promise[Redis] # 0 =>
              /\ refused[Redis] < promise[Redis] + MaxSkew
              /\ \/ Cardinality(zset) < Limit
                 \/ \E e \in zset : promise[Redis] >= e.score + Window - Fastest

LimiterInv ==
    /\ LimiterTypeOK /\ DequesTell /\ Members(zset) /\ Covers(zset)
    /\ KeyOutlives /\ Faultless /\ PromiseStands

-----------------------------------------------------------------------------
(* Numbers, counting and pruning.                                          *)

LEMMA Least ==
    ASSUME NEW I \in SUBSET Nat, I # {}
    PROVE  \E m \in I : \A i \in I : m <= i
<1> DEFINE Less == {ss \in Nat \X Nat : ss[1] < ss[2]}
<1>1. IsWellFoundedOn(Less, Nat)
  BY NatLessThanWellFounded DEF OpToRel
<1> HIDE DEF Less
<1>2. \E m \in I : \A i \in I : ~(<<i, m>> \in Less)
  <2>1. I \subseteq Nat
    OBVIOUS
  <2> QED BY <1>1, <2>1, WFMin, Zenon
<1>3. PICK m \in I : \A i \in I : ~(<<i, m>> \in Less)
  BY <1>2
<1>4. ASSUME NEW i \in I PROVE m <= i
  <2>1. <<i, m>> \in Nat \X Nat /\ <<i, m>>[1] = i /\ <<i, m>>[2] = m
    OBVIOUS
  <2>2. ~(i < m)
    BY <1>3, <2>1 DEF Less
  <2> QED BY <2>2
<1> QED BY <1>4

\* Else there is a first k such that none of f[1..k] is greatest.
LEMMA GreatestAmong ==
    ASSUME NEW n \in Nat, n >= 1, NEW f \in [1..n -> Nat]
    PROVE  \E m \in 1..n : \A j \in 1..n : f[j] <= f[m]
<1> DEFINE best(k, m) == \A j \in 1..k : f[j] <= f[m]
           open == {k \in 1..n : ~\E m \in 1..k : best(k, m)}
<1>1. CASE open = {}
  <2>1. n \in 1..n /\ n \notin open
    <3> HIDE DEF open
    <3> QED BY <1>1
  <2> QED BY <2>1
<1>2. CASE open # {}
  <2>1. open \in SUBSET Nat
    OBVIOUS
  <2>2. PICK k \in open : \A i \in open : k <= i
    <3> HIDE DEF open
    <3> QED BY <1>2, <2>1, Least
  <2>3. k \in 1..n /\ ~\E m \in 1..k : best(k, m)
    BY <2>2
  <2>4. k # 1
    <3>1. k = 1 => best(k, 1)
      OBVIOUS
    <3> QED BY <2>3, <3>1
  <2>5. k - 1 \in 1..n /\ k - 1 \notin open
    <3>1. k - 1 \in 1..n /\ ~(k <= k - 1)
      BY <2>3, <2>4
    <3> HIDE DEF open
    <3> QED BY <2>2, <3>1
  <2>6. PICK m \in 1..(k - 1) : best(k - 1, m)
    BY <2>5
  <2>7. /\ m \in 1..k /\ k \in 1..k /\ f[m] \in Nat /\ f[k] \in Nat
        /\ \A j \in 1..k : j = k \/ j \in 1..(k - 1)
        /\ \A j \in 1..(k - 1) : f[j] \in Nat
    BY <2>3, <2>4
  <2> HIDE DEF open
  <2>8. CASE f[k] <= f[m]
    <3>1. best(k, m)
      BY <2>6, <2>7, <2>8
    <3> HIDE DEF best
    <3> QED BY <2>3, <2>7, <3>1, Zenon
  <2>9. CASE f[m] < f[k]
    <3>1. best(k, k)
      BY <2>6, <2>7, <2>9
    <3> HIDE DEF best
    <3> QED BY <2>3, <2>7, <3>1, Zenon
  <2>10. f[k] <= f[m] \/ f[m] < f[k]
    BY <2>7
  <2> QED BY <2>8, <2>9, <2>10
<1> QED BY <1>1, <1>2

\* Max and Min of the community modules are what their names say.
LEMMA MaxIs ==
    ASSUME NEW T \in SUBSET Nat, T # {}, IsFiniteSet(T)
    PROVE  Max(T) \in T /\ \A x \in T : x <= Max(T)
<1>1. PICK f \in Bijection(1..Cardinality(T), T) : TRUE
  BY FS_CardinalityType DEF ExistsBijection
<1> DEFINE n == Cardinality(T)
<1>2. n \in Nat /\ n # 0
  BY FS_CardinalityType, FS_EmptySet
<1>3. /\ f \in [1..n -> T] /\ \A x \in T : \E j \in 1..n : f[j] = x
  BY <1>1 DEF Bijection, Injection, Surjection
<1> HIDE DEF n
<1>4. PICK m \in 1..n : \A j \in 1..n : f[j] <= f[m]
  <2>1. f \in [1..n -> Nat]
    BY <1>3
  <2>2. n >= 1
    BY <1>2
  <2> QED BY <1>2, <2>1, <2>2, GreatestAmong
<1>5. f[m] \in T /\ \A x \in T : f[m] >= x
  BY <1>3, <1>4
<1>6. Max(T) \in T /\ \A x \in T : Max(T) >= x
  BY <1>5 DEF Max
<1> QED BY <1>6

LEMMA MinIs ==
    ASSUME NEW T \in SUBSET Nat, T # {}
    PROVE  Min(T) \in T /\ \A x \in T : Min(T) <= x
<1>1. \E m \in T : \A x \in T : m <= x
  BY Least
<1> QED BY <1>1 DEF Min

\* A function of a finite set has finitely many values.
LEMMA ImageIsFinite ==
    ASSUME NEW S, IsFiniteSet(S), NEW f, f = [x \in S |-> f[x]]
    PROVE  IsFiniteSet({f[x] : x \in S})
<1> DEFINE T == {f[x] : x \in S}
<1>1. f \in Surjection(S, T)
  BY DEF Surjection
<1> QED BY <1>1, FS_Surjection

LEMMA WindowIs == Window \in Nat /\ Window >= 1
<1>1. Seconds \in Nat /\ Second \in Nat /\ Seconds >= 1 /\ Second >= 1
  BY LimitAssumption
<1> QED BY <1>1 DEF Window

\* Every wall clock is between the slowest and the fastest.
LEMMA ClocksAre ==
    /\ Slowest \in Nat /\ Fastest \in Nat /\ MaxSkew = Fastest - Slowest
    /\ Slowest <= Fastest
    /\ \A p \in Procs : /\ Skew[p] \in Nat
                        /\ Slowest <= Skew[p] /\ Skew[p] <= Fastest
<1> DEFINE T == {Skew[p] : p \in Procs}
<1>1. Skew \in [Procs -> Nat] /\ IsFiniteSet(Procs) /\ Procs # {}
  BY LimitAssumption
<1>2. T \in SUBSET Nat /\ T # {} /\ IsFiniteSet(T)
  BY <1>1, ImageIsFinite
<1>3. \A p \in Procs : Skew[p] \in T
  OBVIOUS
<1>4. Fastest = Max(T) /\ Slowest = Min(T)
  BY DEF Fastest, Slowest
<1> HIDE DEF T
<1>5. Fastest \in T /\ \A x \in T : x <= Fastest
  BY <1>2, <1>4, MaxIs
<1>6. Slowest \in T /\ \A x \in T : Slowest <= x
  BY <1>2, <1>4, MinIs
<1> QED BY <1>1, <1>2, <1>3, <1>5, <1>6 DEF MaxSkew

\* What a clock shows, and what is in its window.
LEMMA ClockIs ==
    ASSUME now \in Nat, NEW p \in Procs
    PROVE  /\ Clock(p) \in Nat /\ Clock(p) <= now + Fastest
           /\ \A c \in Int :
                 /\ c + Slowest \in Int /\ c + Fastest \in Int
                 /\ c >= now - Window + MaxSkew => c + Slowest >= Clock(p) - Window
                 /\ c <= now - Window - MaxSkew => c + Fastest <= Clock(p) - Window
                 /\ now > c => Clock(p) > c + Slowest
                 /\ Clock(p) > c + Fastest => now > c
<1>1. /\ Skew[p] \in Nat /\ Slowest <= Skew[p] /\ Skew[p] <= Fastest
      /\ Slowest \in Nat /\ Fastest \in Nat /\ MaxSkew = Fastest - Slowest
  BY ClocksAre
<1>2. Window \in Nat /\ Clock(p) = now + Skew[p]
  BY WindowIs DEF Clock
<1>3. Clock(p) \in Nat /\ Clock(p) <= now + Fastest /\ Clock(p) >= now + Slowest
  BY <1>1, <1>2
<1> SUFFICES ASSUME NEW c \in Int
             PROVE  /\ c + Slowest \in Int /\ c + Fastest \in Int
                    /\ c >= now - Window + MaxSkew => c + Slowest >= Clock(p) - Window
                    /\ c <= now - Window - MaxSkew => c + Fastest <= Clock(p) - Window
                    /\ now > c => Clock(p) > c + Slowest
                    /\ Clock(p) > c + Fastest => now > c
  BY <1>3
<1> QED BY <1>1, <1>2

LEMMA AtLeast1Is ==
    ASSUME NEW n \in Int
    PROVE  AtLeast1(n) \in Nat /\ AtLeast1(n) >= 1 /\ AtLeast1(n) >= n
<1>1. \E m \in {1, n} : \A x \in {1, n} : m >= x
  OBVIOUS
<1>2. AtLeast1(n) \in {1, n} /\ \A x \in {1, n} : AtLeast1(n) >= x
  BY <1>1 DEF AtLeast1, Max
<1> QED BY <1>2

\* Rounded up to seconds, a time is not shorter than it was.
LEMMA RoundedUpIs ==
    ASSUME NEW ticks \in Int
    PROVE  /\ RoundedUp(ticks) * Second \in Nat
           /\ RoundedUp(ticks) * Second >= 1
           /\ RoundedUp(ticks) * Second >= ticks
<1> DEFINE a == ticks + Second - 1
           n == a \div Second
<1>1. Second \in Nat /\ Second >= 1 /\ a \in Int
  BY LimitAssumption
<1>2. n \in Int /\ a = Second * n + (a % Second) /\ a % Second \in 0..(Second - 1)
  BY <1>1
<1>3. n * Second >= ticks
  BY <1>1, <1>2
<1>4. RoundedUp(ticks) = AtLeast1(n)
  BY DEF RoundedUp
<1> HIDE DEF n, a
<1>5. AtLeast1(n) \in Nat /\ AtLeast1(n) >= 1 /\ AtLeast1(n) >= n
  BY <1>2, AtLeast1Is
<1> DEFINE m == AtLeast1(n)
<1>6. \A k \in Nat : k >= 1 /\ k >= n =>
          k * Second \in Nat /\ k * Second >= 1 /\ k * Second >= n * Second
  BY <1>1, <1>2
<1>7. n * Second \in Int
  BY <1>1, <1>2
<1>8. m * Second \in Nat /\ m * Second >= 1 /\ m * Second >= n * Second
  BY <1>5, <1>6
<1> QED BY <1>3, <1>4, <1>7, <1>8

LEMMA FlooredIs ==
    ASSUME NEW ticks \in Int
    PROVE  Floored(ticks) * Second \in Nat
<1>1. Second \in Nat /\ Second >= 1
  BY LimitAssumption
<1>2. ticks \div Second \in Int
  BY <1>1
<1>3. Floored(ticks) \in Nat
  BY <1>2, AtLeast1Is DEF Floored
<1> QED BY <1>1, <1>3

\* How many times are after a point: all if all are, none if none is.
LEMMA AfterIs ==
    ASSUME NEW times \in Seq(Nat), NEW at \in Int
    PROVE  /\ IsFiniteSet({i \in 1..Len(times) : times[i] > at})
           /\ After(times, at) \in Nat /\ After(times, at) <= Len(times)
           /\ (\A i \in 1..Len(times) : times[i] > at) => After(times, at) = Len(times)
           /\ (\A i \in 1..Len(times) : times[i] <= at) => After(times, at) = 0
<1> DEFINE N == 1..Len(times)
           S == {i \in N : times[i] > at}
<1>1. Len(times) \in Nat /\ \A i \in N : times[i] \in Nat
  OBVIOUS
<1>2. IsFiniteSet(N) /\ Cardinality(N) = Len(times)
  <2>1. Len(times) \in Nat /\ Len(times) \in Int /\ 1 \in Int
    OBVIOUS
  <2> HIDE DEF S, N
  <2>2. /\ IsFiniteSet(1..Len(times))
        /\ Cardinality(1..Len(times)) = IF 1 > Len(times) THEN 0 ELSE Len(times) - 1 + 1
    BY <2>1, FS_Interval
  <2> QED BY <2>1, <2>2 DEF N
<1>3. IsFiniteSet(S) /\ Cardinality(S) <= Cardinality(N) /\ Cardinality(S) \in Nat
  <2>1. S \in SUBSET N
    OBVIOUS
  <2> HIDE DEF S, N
  <2> QED BY <1>2, <2>1, FS_Subset, FS_CardinalityType
<1>4. (\A i \in N : times[i] > at) => S = N
  OBVIOUS
<1>5. (\A i \in N : times[i] <= at) => S = {}
  BY <1>1
<1>6. After(times, at) = Cardinality(S)
  BY DEF After
<1>7. Cardinality({}) = 0
  BY FS_EmptySet
<1> HIDE DEF S
<1>8. /\ After(times, at) \in Nat /\ After(times, at) <= Len(times)
      /\ (\A i \in N : times[i] > at) => After(times, at) = Len(times)
      /\ (\A i \in N : times[i] <= at) => After(times, at) = 0
  BY <1>2, <1>3, <1>4, <1>5, <1>6, <1>7
<1> QED BY <1>3, <1>8 DEF S

\* An admission counts for every point before it.
LEMMA AfterAppend ==
    ASSUME NEW times \in Seq(Nat), NEW t \in Nat, NEW at \in Int
    PROVE  After(Append(times, t), at) = After(times, at) + IF t > at THEN 1 ELSE 0
<1> DEFINE n == Len(times)
           S == {i \in 1..n : times[i] > at}
           more == Append(times, t)
           T == {i \in 1..Len(more) : more[i] > at}
<1>1. /\ n \in Nat /\ Len(more) = n + 1 /\ more[n + 1] = t
      /\ \A i \in 1..n : more[i] = times[i]
  OBVIOUS
<1>2. IsFiniteSet(S) /\ n + 1 \notin S
  BY <1>1, AfterIs
<1>3. T = IF t > at THEN S \cup {n + 1} ELSE S
  <2>1. \A i : i \in 1..(n + 1) <=> i \in 1..n \/ i = n + 1
    BY <1>1
  <2> QED BY <1>1, <2>1
<1>4. After(times, at) = Cardinality(S) /\ After(more, at) = Cardinality(T)
  BY DEF After
<1>5. Cardinality(S) \in Nat
  BY <1>2, FS_CardinalityType
<1>6. Cardinality(S \cup {n + 1}) = Cardinality(S) + 1
  <2> HIDE DEF S, n
  <2> QED BY <1>2, FS_AddElement
<1> HIDE DEF S, T, n
<1> QED BY <1>3, <1>4, <1>5, <1>6

\* The pruning drops the longest prefix of events that expired.
LEMMA PrunedIs ==
    ASSUME NEW times \in Seq(Nat), NEW cutoff \in Int
    PROVE  \E n \in 0..Len(times) :
              /\ Pruned(times, cutoff) = SubSeq(times, n + 1, Len(times))
              /\ \A i \in 1..n : times[i] <= cutoff
              /\ n < Len(times) => times[n + 1] > cutoff
<1> DEFINE P(n) == /\ \A i \in 1..n : times[i] <= cutoff
                   /\ n < Len(times) => times[n + 1] > cutoff
           fresh == {i \in 1..Len(times) : times[i] > cutoff}
<1>1. Len(times) \in Nat /\ \A i \in 1..Len(times) : times[i] \in Nat
  OBVIOUS
<1>2. \E n \in 0..Len(times) : P(n)
  <2>1. CASE fresh = {}
    <3>1. \A i \in 1..Len(times) : times[i] <= cutoff
      BY <2>1
    <3>2. Len(times) \in 0..Len(times) /\ P(Len(times))
      BY <1>1, <3>1
    <3> QED BY <3>2
  <2>2. CASE fresh # {}
    <3>1. fresh \in SUBSET Nat
      BY <1>1
    <3>2. PICK m \in fresh : \A i \in fresh : m <= i
      <4> HIDE DEF fresh
      <4> QED BY <2>2, <3>1, Least
    <3>3. m \in 1..Len(times) /\ times[m] > cutoff
      BY <3>2
    <3>4. \A i \in 1..(m - 1) : i \in 1..Len(times) /\ ~(m <= i)
      BY <1>1, <3>3
    <3>5. m - 1 \in 0..Len(times) /\ (m - 1) + 1 = m
      BY <1>1, <3>3
    <3>6. \A i \in 1..(m - 1) : times[i] <= cutoff
      BY <3>2, <3>4
    <3>7. P(m - 1)
      BY <3>3, <3>5, <3>6
    <3> HIDE DEF P
    <3> QED BY <3>5, <3>7
  <2> QED BY <2>1, <2>2
<1> DEFINE stale == CHOOSE n \in 0..Len(times) : P(n)
<1>3. Pruned(times, cutoff) = SubSeq(times, stale + 1, Len(times))
  BY DEF Pruned
<1>4. stale \in 0..Len(times) /\ P(stale)
  <2> HIDE DEF P
  <2> QED BY <1>2
<1> HIDE DEF stale
<1>5. \A i \in 1..stale : times[i] <= cutoff
  BY <1>4
<1>6. stale < Len(times) => times[stale + 1] > cutoff
  BY <1>4
<1> QED BY <1>3, <1>4, <1>5, <1>6

\* What is left of a sequence when its first n are dropped.
LEMMA SuffixIs ==
    ASSUME NEW times \in Seq(Nat), NEW n \in 0..Len(times)
    PROVE  LET rest == SubSeq(times, n + 1, Len(times)) IN
           /\ rest \in Seq(Nat) /\ Len(rest) = Len(times) - n
           /\ \A i \in 1..Len(rest) : rest[i] = times[i + n]
<1> DEFINE rest == SubSeq(times, n + 1, Len(times))
<1>1. Len(times) \in Nat /\ \A i \in 1..Len(times) : times[i] \in Nat
  OBVIOUS
<1>2. \A i \in (n + 1)..Len(times) : times[i] \in Nat
  BY <1>1
<1>3. n + 1 \in Int /\ Len(times) \in Int
  BY <1>1
<1>4. /\ rest \in Seq(Nat)
      /\ Len(rest) = IF n + 1 <= Len(times) THEN Len(times) - (n + 1) + 1 ELSE 0
      /\ \A i \in 1..(Len(times) - (n + 1) + 1) : rest[i] = times[(n + 1) + i - 1]
  BY <1>2, <1>3, SubSeqProperties
<1> HIDE DEF rest
<1> QED BY <1>1, <1>4 DEF rest

\* A suffix has as many times after a point that no dropped one is after.
LEMMA SuffixAfter ==
    ASSUME NEW times \in Seq(Nat), NEW n \in 0..Len(times), NEW at \in Int,
           \A i \in 1..n : times[i] <= at
    PROVE  After(SubSeq(times, n + 1, Len(times)), at) = After(times, at)
<1> DEFINE rest == SubSeq(times, n + 1, Len(times))
           S == {i \in 1..Len(times) : times[i] > at}
           T == {i \in 1..Len(rest) : rest[i] > at}
           f == [i \in T |-> i + n]
<1>1. Len(times) \in Nat /\ \A i \in 1..Len(times) : times[i] \in Nat
  OBVIOUS
<1>2. rest \in Seq(Nat) /\ Len(rest) = Len(times) - n
      /\ \A i \in 1..Len(rest) : rest[i] = times[i + n]
  BY SuffixIs
<1> HIDE DEF rest
<1>3. IsFiniteSet(T) /\ After(rest, at) = Cardinality(T)
  BY <1>2, AfterIs DEF After
<1>4. After(times, at) = Cardinality(S)
  BY DEF After
<1>5. f \in Bijection(T, S)
  <2>0. T \subseteq Nat
    BY <1>2
  <2>1. \A i \in T : i + n \in S
    <3> SUFFICES ASSUME NEW i \in T PROVE i + n \in S
      OBVIOUS
    <3>1. i \in 1..Len(rest) /\ rest[i] > at
      OBVIOUS
    <3>2. i + n \in 1..Len(times)
      BY <1>1, <1>2, <3>1
    <3>3. rest[i] = times[i + n]
      BY <1>2, <3>1
    <3> QED BY <3>1, <3>2, <3>3
  <2>2. \A j \in S : j - n \in T /\ f[j - n] = j
    <3> SUFFICES ASSUME NEW j \in S PROVE j - n \in T /\ f[j - n] = j
      OBVIOUS
    <3>1. j \in 1..Len(times) /\ times[j] > at /\ ~(times[j] <= at)
      BY <1>1
    <3>2. j > n
      BY <1>1, <3>1
    <3>3. j - n \in 1..Len(rest) /\ rest[j - n] = times[j]
      BY <1>1, <1>2, <3>1, <3>2
    <3> QED BY <3>1, <3>3
  <2>3. \A i, j \in T : f[i] = f[j] => i = j
    BY <2>0
  <2>4. f \in [T -> S]
    BY <2>1
  <2> HIDE DEF S, T, f
  <2>5. \A j \in S : \E i \in T : f[i] = j
    BY <2>2
  <2> QED BY <2>3, <2>4, <2>5 DEF Bijection, Injection, Surjection, IsInjective
<1>6. ExistsBijection(T, S)
  BY <1>5 DEF ExistsBijection
<1> HIDE DEF S, T
<1>7. After(rest, at) = After(times, at)
  BY <1>3, <1>4, <1>6, FS_Bijection
<1> QED BY <1>7 DEF rest

\* A pruning keeps the order and loses nothing that is after the cutoff.
LEMMA PrunedTells ==
    ASSUME NEW times \in Seq(Nat), NEW cutoff \in Int
    PROVE  LET left == Pruned(times, cutoff) IN
           /\ left \in Seq(Nat) /\ Len(left) <= Len(times)
           /\ \A i \in 1..Len(left) : \E j \in 1..Len(times) : left[i] = times[j]
           /\ InOrder(times) => /\ InOrder(left)
                                /\ \A i \in 1..Len(left) : left[i] > cutoff
           /\ \A c \in Int : c >= cutoff => After(left, c) = After(times, c)
<1> DEFINE left == Pruned(times, cutoff)
<1>1. Len(times) \in Nat /\ \A i \in 1..Len(times) : times[i] \in Nat
  OBVIOUS
<1>2. PICK n \in 0..Len(times) :
          /\ left = SubSeq(times, n + 1, Len(times))
          /\ \A i \in 1..n : times[i] <= cutoff
          /\ n < Len(times) => times[n + 1] > cutoff
  BY PrunedIs
<1>3. left \in Seq(Nat) /\ Len(left) = Len(times) - n
      /\ \A i \in 1..Len(left) : left[i] = times[i + n]
  BY <1>2, SuffixIs
<1>4. \A c \in Int : c >= cutoff => After(left, c) = After(times, c)
  <2> SUFFICES ASSUME NEW c \in Int, c >= cutoff
               PROVE  After(left, c) = After(times, c)
    OBVIOUS
  <2>1. \A i \in 1..n : times[i] <= c
    BY <1>1, <1>2
  <2> QED BY <1>2, <2>1, SuffixAfter
<1> HIDE DEF left
<1>5. \A i \in 1..Len(left) : i + n \in 1..Len(times) /\ n + 1 \in 1..Len(times)
                              /\ n < Len(times) /\ n + 1 <= i + n
  BY <1>1, <1>3
<1>6. ASSUME InOrder(times) PROVE InOrder(left)
  <2> SUFFICES ASSUME NEW i \in 1..Len(left), NEW j \in 1..Len(left), i <= j
               PROVE  left[i] <= left[j]
    BY DEF InOrder
  <2>1. i + n \in 1..Len(times) /\ j + n \in 1..Len(times) /\ i + n <= j + n
    BY <1>5
  <2> QED BY <1>3, <1>6, <2>1 DEF InOrder
<1>7. ASSUME InOrder(times), NEW i \in 1..Len(left) PROVE left[i] > cutoff
  <2>1. left[i] = times[i + n] /\ times[n + 1] <= times[i + n]
    BY <1>3, <1>5, <1>7 DEF InOrder
  <2>2. times[n + 1] > cutoff
    BY <1>2, <1>5
  <2>3. times[n + 1] \in Nat /\ times[i + n] \in Nat
    BY <1>1, <1>5
  <2>4. times[i + n] > cutoff
    BY <2>1, <2>2, <2>3
  <2> QED BY <2>1, <2>4
<1>8. Len(left) <= Len(times) /\ \A i \in 1..Len(left) : \E j \in 1..Len(times) : left[i] = times[j]
  BY <1>1, <1>3, <1>5
<1> QED BY <1>3, <1>4, <1>6, <1>7, <1>8 DEF left

\* What part of the set is after a point is no more than all, nor the limit.
LEMMA ScoredAfterIs ==
    ASSUME NEW z, Members(z), NEW y \in SUBSET z, NEW at \in Int
    PROVE  /\ Members(y)
           /\ IsFiniteSet(ScoredAfter(y, at))
           /\ Cardinality(ScoredAfter(y, at)) \in Nat
           /\ Cardinality(ScoredAfter(y, at)) <= Cardinality(ScoredAfter(z, at))
           /\ Cardinality(ScoredAfter(y, at)) <= Cardinality(y)
           /\ Cardinality(y) \in Nat /\ Cardinality(y) <= Cardinality(z)
           /\ Cardinality(y) >= Limit => y = z
<1>1. IsFiniteSet(z) /\ Cardinality(z) \in Nat /\ Cardinality(z) <= Limit /\ Limit \in Nat
  BY FS_CardinalityType, LimitAssumption DEF Members
<1>2. /\ IsFiniteSet(y) /\ Cardinality(y) <= Cardinality(z) /\ Cardinality(y) \in Nat
      /\ Cardinality(y) = Cardinality(z) => y = z
  BY <1>1, FS_Subset, FS_CardinalityType
<1>3. Members(y)
  BY <1>1, <1>2 DEF Members
<1>4. ScoredAfter(y, at) \in SUBSET y /\ ScoredAfter(z, at) \in SUBSET z
      /\ ScoredAfter(y, at) \in SUBSET ScoredAfter(z, at)
  BY DEF ScoredAfter
<1>5. /\ IsFiniteSet(ScoredAfter(y, at)) /\ IsFiniteSet(ScoredAfter(z, at))
      /\ Cardinality(ScoredAfter(y, at)) <= Cardinality(y)
  BY <1>1, <1>2, <1>4, FS_Subset
<1>6. /\ Cardinality(ScoredAfter(y, at)) <= Cardinality(ScoredAfter(z, at))
      /\ Cardinality(ScoredAfter(y, at)) \in Nat
  BY <1>4, <1>5, FS_Subset, FS_CardinalityType
<1> QED BY <1>1, <1>2, <1>3, <1>5, <1>6

\* While there is room, some member is not in use yet.
LEMMA EventIs ==
    ASSUME NEW z, Members(z), Cardinality(z) < Limit, NEW clock \in Nat
    PROVE  /\ Event(z, clock) \in [score : Nat, member : 1..Limit]
           /\ Event(z, clock).score = clock /\ Event(z, clock) \notin z
<1> DEFINE k == Cardinality(z)
           f == [e \in z |-> e.member]
           used == {f[e] : e \in z}
           new == CHOOSE m \in 1..(k + 1) : \A e \in z : e.member # m
<1>1. IsFiniteSet(z) /\ k \in Nat /\ Limit \in Nat /\ k < Limit
  BY FS_CardinalityType, LimitAssumption DEF Members
<1>2. f \in Surjection(z, used)
  BY DEF Surjection
<1>3. IsFiniteSet(used) /\ Cardinality(used) <= k
  <2> HIDE DEF f, used
  <2> QED BY <1>1, <1>2, FS_Surjection
<1>4. Cardinality(used) \in Nat
  BY <1>3, FS_CardinalityType
<1>5. Cardinality(1..(k + 1)) = k + 1
  <2> HIDE DEF k
  <2>1. 1 \in Int /\ k + 1 \in Int /\ ~(1 > k + 1)
    BY <1>1
  <2> QED BY <1>1, <2>1, FS_Interval
<1>6. \E m \in 1..(k + 1) : \A e \in z : e.member # m
  <2> SUFFICES ASSUME \A m \in 1..(k + 1) : \E e \in z : e.member = m PROVE FALSE
    OBVIOUS
  <2>1. 1..(k + 1) \in SUBSET used
    <3>1. \A m \in 1..(k + 1) : \E e \in z : f[e] = m
      OBVIOUS
    <3> HIDE DEF f, k
    <3> QED BY <3>1
  <2> HIDE DEF used, k
  <2>2. Cardinality(1..(k + 1)) <= Cardinality(used)
    BY <1>3, <2>1, FS_Subset
  <2> QED BY <1>1, <1>3, <1>4, <1>5, <2>2
<1>7. new \in 1..(k + 1) /\ \A e \in z : e.member # new
  <2> HIDE DEF k
  <2> QED BY <1>6
<1>8. Event(z, clock) = [score |-> clock, member |-> new]
  BY DEF Event
<1> HIDE DEF new, k
<1>9. new \in 1..Limit
  BY <1>1, <1>7
<1> QED BY <1>7, <1>8, <1>9

\* What a run of the script leaves.
LEMMA ScriptedIs ==
    ASSUME NEW z, Members(z), NEW clock \in Nat
    PROVE  /\ Live(z, clock) \in SUBSET z
           /\ Cardinality(Live(z, clock)) \in Nat
           /\ Members(Scripted(z, clock))
           /\ Full(Cardinality(Live(z, clock))) =>
                  Live(z, clock) = z /\ Scripted(z, clock) = z
           /\ \A at \in Int :
                 /\ at >= clock - Window =>
                       ScoredAfter(Live(z, clock), at) = ScoredAfter(z, at)
                 /\ ~Full(Cardinality(Live(z, clock))) =>
                       Cardinality(ScoredAfter(Scripted(z, clock), at)) =
                          Cardinality(ScoredAfter(Live(z, clock), at))
                             + IF clock > at THEN 1 ELSE 0
<1> DEFINE live == Live(z, clock)
           e == Event(live, clock)
           next == Scripted(z, clock)
<1>1. live \in SUBSET z
  BY DEF Live
<1>2. Members(live) /\ Cardinality(live) \in Nat /\ (Cardinality(live) >= Limit => live = z)
  BY <1>1, ScoredAfterIs, 0 \in Int
<1>3. ASSUME NEW at \in Int, at >= clock - Window
      PROVE  ScoredAfter(live, at) = ScoredAfter(z, at)
  <2>1. \A x \in z : x.score \in Nat
    BY DEF Members
  <2>2. \A x \in z : x.score > at => x.score > clock - Window
    BY <1>3, <2>1, WindowIs
  <2> QED BY <2>1, <2>2 DEF ScoredAfter, Live, Cutoff
<1>4. ASSUME Full(Cardinality(live))
      PROVE  live = z /\ next = z
  BY <1>2, <1>4 DEF Full, Scripted
<1>5. ASSUME ~Full(Cardinality(live))
      PROVE  /\ Members(next)
             /\ \A at \in Int : Cardinality(ScoredAfter(next, at)) =
                    Cardinality(ScoredAfter(live, at)) + IF clock > at THEN 1 ELSE 0
  <2>1. Cardinality(live) < Limit /\ Limit \in Nat
    BY <1>2, <1>5, LimitAssumption DEF Full
  <2>2. next = live \cup {e}
    BY <1>5 DEF Scripted
  <2> HIDE DEF live, next
  <2>3. e \in [score : Nat, member : 1..Limit] /\ e.score = clock /\ e \notin live
    BY <1>2, <2>1, EventIs
  <2> HIDE DEF e
  <2>4. IsFiniteSet(next) /\ Cardinality(next) = Cardinality(live) + 1
    BY <1>2, <2>2, <2>3, FS_AddElement DEF Members
  <2>5. Members(next)
    BY <1>2, <2>1, <2>2, <2>3, <2>4 DEF Members
  <2>6. ASSUME NEW at \in Int
        PROVE  Cardinality(ScoredAfter(next, at)) =
                   Cardinality(ScoredAfter(live, at)) + IF clock > at THEN 1 ELSE 0
    <3>1. ScoredAfter(next, at) = IF clock > at THEN ScoredAfter(live, at) \cup {e}
                                                ELSE ScoredAfter(live, at)
      BY <2>2, <2>3 DEF ScoredAfter
    <3>2. e \notin ScoredAfter(live, at)
      BY <2>3 DEF ScoredAfter
    <3>3. IsFiniteSet(ScoredAfter(live, at)) /\ Cardinality(ScoredAfter(live, at)) \in Nat
      BY <1>2, ScoredAfterIs
    <3>4. Cardinality(ScoredAfter(live, at) \cup {e}) = Cardinality(ScoredAfter(live, at)) + 1
      BY <3>2, <3>3, FS_AddElement
    <3> QED BY <3>1, <3>3, <3>4
  <2> QED BY <2>5, <2>6
<1>6. Members(next)
  BY <1>4, <1>5
<1> QED BY <1>1, <1>2, <1>3, <1>4, <1>5, <1>6

-----------------------------------------------------------------------------
(* What a question to a store does to it.                                  *)

\* The part of the state that is of one memory store.
MemoryTells(p) ==
    /\ InOrder(deque[p]) /\ Past(deque[p])
    /\ \A c \in Int : c >= now - Window => After(admitted[p], c) = After(deque[p], c)

\* A memory store keeps its deque true, and refuses only when it is full.
LEMMA MemoryAsked ==
    ASSUME LimiterInv, NEW p \in Procs, AskMemory(p), now' = now
    PROVE  /\ deque' \in [Procs -> Seq(Nat)] /\ \A q \in Procs : Len(deque'[q]) <= Limit
           /\ admitted' \in [Stores -> Seq(Nat)]
           /\ promise' \in [Stores -> Nat] /\ refused' \in [Stores -> Nat]
           /\ DequesTell'
           /\ \A s \in Stores \ {p} : /\ admitted'[s] = admitted[s]
                                      /\ promise'[s] = promise[s]
                                      /\ refused'[s] = refused[s]
           /\ refused' # refused =>
                 admitted' = admitted /\ After(admitted[p], now - Window) >= Limit
<1> DEFINE live == Pruned(deque[p], now - Window)
<1>1. /\ now \in Nat /\ deque \in [Procs -> Seq(Nat)] /\ \A q \in Procs : Len(deque[q]) <= Limit
      /\ admitted \in [Stores -> Seq(Nat)]
      /\ promise \in [Stores -> Nat] /\ refused \in [Stores -> Nat]
      /\ p \in Stores /\ Limit \in Nat
  BY LimitAssumption DEF LimiterInv, LimiterTypeOK, Stores
<1>2. InOrder(deque[p]) /\ Past(deque[p])
      /\ \A c \in Int : c >= now - Window => After(admitted[p], c) = After(deque[p], c)
  BY DEF LimiterInv, DequesTell
<1>3. /\ live \in Seq(Nat) /\ Len(live) <= Len(deque[p])
      /\ \A i \in 1..Len(live) : \E j \in 1..Len(deque[p]) : live[i] = deque[p][j]
      /\ InOrder(live) /\ \A i \in 1..Len(live) : live[i] > now - Window
      /\ \A c \in Int : c >= now - Window => After(live, c) = After(deque[p], c)
  <2>1. deque[p] \in Seq(Nat) /\ now - Window \in Int
    BY <1>1, WindowIs
  <2> QED BY <1>2, <2>1, PrunedTells
<1>4. Past(live)
  BY <1>2, <1>3 DEF Past
<1> HIDE DEF live
<1>5. live \in Seq(Nat)
  BY <1>3
<1>6. Len(live) \in Nat /\ \A i \in 1..Len(live) : live[i] \in Nat
  BY <1>5
<1>7. CASE Full(Len(live))
  <2>1. /\ deque' = [deque EXCEPT ![p] = live]
        /\ Refuses(p, Floored(Head(live) + Window - now))
    BY <1>7 DEF AskMemory, live, Cutoff
  <2>2. Len(live) \in Nat /\ Len(live) >= 1
    BY <1>6, <1>7, LimitAssumption DEF Full
  <2>3. now + Floored(Head(live) + Window - now) * Second \in Nat
    <3>1. Head(live) \in Nat
      BY <1>5, <2>2
    <3>2. Head(live) + Window - now \in Int
      BY <1>1, <3>1, WindowIs
    <3>3. Floored(Head(live) + Window - now) * Second \in Nat
      BY <3>2, FlooredIs
    <3> QED BY <1>1, <3>3
  <2>4. /\ admitted' = admitted
        /\ promise' \in [Stores -> Nat] /\ refused' \in [Stores -> Nat]
        /\ \A s \in Stores \ {p} : promise'[s] = promise[s] /\ refused'[s] = refused[s]
    BY <1>1, <2>1, <2>3 DEF Refuses
  <2>5. /\ deque' \in [Procs -> Seq(Nat)] /\ deque'[p] = live
        /\ \A q \in Procs : Len(deque'[q]) <= Limit /\ (q # p => deque'[q] = deque[q])
    BY <1>1, <1>3, <2>1
  <2>6. DequesTell'
    <3> SUFFICES ASSUME NEW q \in Procs PROVE MemoryTells(q)'
      BY DEF DequesTell, MemoryTells
    <3>1. CASE q = p
      BY <1>2, <1>3, <1>4, <2>4, <2>5, <3>1 DEF MemoryTells, Past
    <3>2. CASE q # p
      BY <2>4, <2>5, <3>2 DEF MemoryTells, Past, LimiterInv, DequesTell
    <3> QED BY <3>1, <3>2
  <2>7. After(admitted[p], now - Window) >= Limit
    <3>1. now - Window \in Int
      BY <1>1, WindowIs
    <3>2. After(live, now - Window) = Len(live)
      BY <1>3, <3>1, AfterIs
    <3>3. After(admitted[p], now - Window) = After(live, now - Window)
      BY <1>2, <1>3, <3>1
    <3> QED BY <1>7, <3>2, <3>3 DEF Full
  <2> QED BY <1>1, <2>4, <2>5, <2>6, <2>7
<1>8. CASE ~Full(Len(live))
  <2>1. deque' = [deque EXCEPT ![p] = Append(live, now)] /\ Admits(p)
    BY <1>8 DEF AskMemory, live, Cutoff
  <2>2. /\ admitted' = [admitted EXCEPT ![p] = Append(@, now)] /\ refused' = refused
        /\ promise' = [promise EXCEPT ![p] = 0]
    BY <2>1 DEF Admits
  <2>3. /\ Append(live, now) \in Seq(Nat) /\ Len(Append(live, now)) = Len(live) + 1
        /\ Len(live) + 1 <= Limit
    BY <1>1, <1>3, <1>8 DEF Full
  <2>4. /\ deque' \in [Procs -> Seq(Nat)] /\ deque'[p] = Append(live, now)
        /\ \A q \in Procs : Len(deque'[q]) <= Limit /\ (q # p => deque'[q] = deque[q])
    BY <1>1, <2>1, <2>3
  <2>5. /\ admitted' \in [Stores -> Seq(Nat)] /\ admitted'[p] = Append(admitted[p], now)
        /\ promise' \in [Stores -> Nat]
        /\ \A s \in Stores \ {p} : admitted'[s] = admitted[s] /\ promise'[s] = promise[s]
    BY <1>1, <2>2
  <2>6. DequesTell'
    <3> SUFFICES ASSUME NEW q \in Procs PROVE MemoryTells(q)'
      BY DEF DequesTell, MemoryTells
    <3>1. CASE q = p
      <4>1. /\ Len(live) \in Nat /\ Append(live, now)[Len(live) + 1] = now
            /\ \A i \in 1..Len(live) : Append(live, now)[i] = live[i]
        BY <1>1, <1>3
      <4>2. \A i \in 1..(Len(live) + 1) : i \in 1..Len(live) \/ i = Len(live) + 1
        BY <4>1
      <4>3. Past(Append(live, now)) /\ InOrder(Append(live, now))
        <5>1. \A i \in 1..(Len(live) + 1) :
                  Append(live, now)[i] \in Nat /\ Append(live, now)[i] <= now
          BY <1>1, <1>4, <1>6, <4>1, <4>2 DEF Past
        <5>2. ASSUME NEW i \in 1..(Len(live) + 1), NEW j \in 1..(Len(live) + 1), i <= j
              PROVE  Append(live, now)[i] <= Append(live, now)[j]
          <6>1. CASE j = Len(live) + 1
            BY <4>1, <5>1, <6>1
          <6>2. CASE j # Len(live) + 1
            <7>1. i \in 1..Len(live) /\ j \in 1..Len(live)
              BY <4>1, <5>2, <6>2
            <7>2. live[i] <= live[j]
              BY <1>3, <5>2, <7>1 DEF InOrder
            <7> QED BY <4>1, <7>1, <7>2
          <6> QED BY <6>1, <6>2
        <5> QED BY <2>3, <5>1, <5>2 DEF Past, InOrder
      <4>4. ASSUME NEW c \in Int, c >= now - Window
            PROVE  After(Append(admitted[p], now), c) = After(Append(live, now), c)
        <5>1. After(admitted[p], c) = After(live, c)
          BY <1>2, <1>3, <4>4
        <5>2. admitted[p] \in Seq(Nat) /\ c \in Int
          BY <1>1
        <5>3. now \in Nat
          BY <1>1
        <5>4. After(Append(admitted[p], now), c) =
                  After(admitted[p], c) + IF now > c THEN 1 ELSE 0
          BY <5>2, <5>3, AfterAppend
        <5>5. After(Append(live, now), c) = After(live, c) + IF now > c THEN 1 ELSE 0
          BY <1>5, <5>3, AfterAppend
        <5> QED BY <5>1, <5>4, <5>5
      <4> QED BY <2>4, <2>5, <3>1, <4>3, <4>4 DEF MemoryTells, Past
    <3>2. CASE q # p
      <4>1. q \in Stores \ {p}
        BY <3>2 DEF Stores
      <4> QED BY <2>4, <2>5, <3>2, <4>1 DEF MemoryTells, Past, LimiterInv, DequesTell
    <3> QED BY <3>1, <3>2
  <2> QED BY <1>1, <2>2, <2>4, <2>5, <2>6
<1> QED BY <1>7, <1>8

\* A run of the script, though its answer may be lost, forgets no admission.
LEMMA ScriptCovers ==
    ASSUME LimiterInv, NEW z, Members(z), Covers(z), NEW p \in Procs
    PROVE  Members(Scripted(z, Clock(p))) /\ Covers(Scripted(z, Clock(p)))
<1> DEFINE clock == Clock(p)
           live == Live(z, clock)
           next == Scripted(z, clock)
<1>1. now \in Nat /\ clock \in Nat /\ clock = now + Skew[p] /\ Skew[p] \in Nat
  BY ClocksAre DEF LimiterInv, LimiterTypeOK, Clock
<1> HIDE DEF clock
<1>2. /\ live \in SUBSET z /\ Members(next)
      /\ Full(Cardinality(live)) => next = z
      /\ \A at \in Int :
            /\ at >= clock - Window => ScoredAfter(live, at) = ScoredAfter(z, at)
            /\ ~Full(Cardinality(live)) =>
                  Cardinality(ScoredAfter(next, at)) =
                      Cardinality(ScoredAfter(live, at)) + IF clock > at THEN 1 ELSE 0
  <2>1. clock \in Nat
    BY <1>1
  <2> QED BY <2>1, ScriptedIs
<1>3. ASSUME NEW c \in Int, c >= now - Window + MaxSkew
      PROVE  After(admitted[Redis], c) <= Cardinality(ScoredAfter(next, c + Slowest))
  <2>1. c + Slowest \in Int /\ c + Slowest >= clock - Window
    BY <1>1, <1>3, ClockIs DEF clock
  <2>2. After(admitted[Redis], c) <= Cardinality(ScoredAfter(z, c + Slowest))
    BY <1>3 DEF Covers
  <2>3. After(admitted[Redis], c) \in Nat
    BY AfterIs DEF LimiterInv, LimiterTypeOK, Stores
  <2>4. Cardinality(ScoredAfter(z, c + Slowest)) \in Nat
    BY <2>1, ScoredAfterIs
  <2> HIDE DEF next, live
  <2> QED BY <1>2, <2>1, <2>2, <2>3, <2>4
<1> QED BY <1>2, <1>3 DEF Covers, clock

\* What of the invariant is about Redis, while no script has run for nothing.
PromisesOfRedis ==
    promise[Redis] # 0 =>
        /\ refused[Redis] < promise[Redis] + MaxSkew
        /\ \/ Cardinality(zset) < Limit
           \/ \E e \in zset : promise[Redis] >= e.score + Window - Fastest

\* A refusal: the set is full of live events, the oldest backs the promise.
LEMMA RedisRefuses ==
    ASSUME LimiterInv, NEW z, Members(z), Covers(z), NEW p \in Procs,
           AskRedis(p, z), now' = now, Full(Cardinality(Live(z, Clock(p))))
    PROVE  /\ zset' = z /\ admitted' = admitted
           /\ promise' \in [Stores -> Nat] /\ refused' \in [Stores -> Nat]
           /\ \A q \in Procs : promise'[q] = promise[q] /\ refused'[q] = refused[q]
           /\ Reflects(z) => After(admitted[Redis], now - Window - MaxSkew) >= Limit
           /\ z = zset /\ PromisesOfRedis => PromisesOfRedis'
<1> DEFINE clock == Clock(p)
           T == {e.score : e \in z}
           ticks == Min(T) + Window - clock
           back == now + RoundedUp(ticks) * Second
<1>1. /\ now \in Nat /\ clock \in Nat /\ clock = now + Skew[p] /\ Skew[p] \in Nat
      /\ admitted \in [Stores -> Seq(Nat)] /\ admitted[Redis] \in Seq(Nat)
      /\ promise \in [Stores -> Nat] /\ refused \in [Stores -> Nat]
      /\ Redis \in Stores /\ Limit \in Nat \ {0}
  <2>1. /\ now \in Nat /\ admitted \in [Stores -> Seq(Nat)]
        /\ promise \in [Stores -> Nat] /\ refused \in [Stores -> Nat]
        /\ Redis \in Stores /\ Limit \in Nat \ {0}
    BY LimitAssumption DEF LimiterInv, LimiterTypeOK, Stores
  <2>2. Skew[p] \in Nat
    BY ClocksAre
  <2> QED BY <2>1, <2>2 DEF Clock
<1>2. Live(z, clock) = z /\ Scripted(z, clock) = z
  <2>1. clock \in Nat
    BY <1>1
  <2> QED BY <2>1, ScriptedIs
<1>3. zset' = z /\ Refuses(Redis, RoundedUp(ticks))
  BY <1>2 DEF AskRedis
<1>4. \A e \in z : e.score \in Nat /\ e.score > clock - Window
  <2>1. \A e \in z : e.score \in Nat /\ e.score > Cutoff(clock)
    BY <1>2 DEF Live, Members
  <2> QED BY <2>1 DEF Cutoff
<1>5. Cardinality(z) \in Nat /\ Cardinality(z) = Limit
  BY <1>1, <1>2, FS_CardinalityType DEF Members, Full
<1>6. \E e \in z : Min(T) = e.score
  <2>1. z # {}
    BY <1>1, <1>5, FS_EmptySet
  <2>2. T \in SUBSET Nat /\ T # {}
    BY <1>4, <2>1
  <2>3. Min(T) \in T
    <3> HIDE DEF T
    <3> QED BY <2>2, MinIs
  <2> QED BY <2>3
<1> HIDE DEF T, clock
<1>7. Min(T) \in Nat /\ ticks \in Int
  <2>1. Min(T) \in Nat
    BY <1>4, <1>6
  <2>2. clock \in Nat /\ Window \in Nat
    BY <1>1, WindowIs
  <2> QED BY <2>1, <2>2
<1>8. back \in Nat /\ back >= now + 1 /\ back >= now + ticks
  <2> HIDE DEF ticks
  <2>1. /\ RoundedUp(ticks) * Second \in Nat
        /\ RoundedUp(ticks) * Second >= 1 /\ RoundedUp(ticks) * Second >= ticks
    BY <1>7, RoundedUpIs
  <2>2. now \in Nat /\ ticks \in Int
    BY <1>1, <1>7
  <2> DEFINE more == RoundedUp(ticks) * Second
  <2>3. back = now + more /\ more \in Nat /\ more >= 1 /\ more >= ticks
    BY <2>1
  <2> HIDE DEF more, back
  <2> QED BY <2>2, <2>3
<1>9. back >= Min(T) + Window - Fastest
  <2>1. Fastest \in Nat /\ Skew[p] \in Nat /\ Skew[p] <= Fastest
    BY ClocksAre
  <2>2. ticks = Min(T) + Window - clock
    OBVIOUS
  <2> HIDE DEF back, ticks
  <2>3. back >= now + (Min(T) + Window - (now + Skew[p]))
    BY <1>1, <1>8, <2>2
  <2>4. back \in Nat /\ now \in Nat /\ Min(T) \in Nat /\ Window \in Nat
    BY <1>1, <1>7, <1>8, WindowIs
  <2> QED BY <2>1, <2>3, <2>4
<1> HIDE DEF back
<1>10. /\ admitted' = admitted
       /\ promise' = [promise EXCEPT ![Redis] = IF @ = 0 \/ back < @ THEN back ELSE @]
       /\ refused' = [refused EXCEPT ![Redis] = now]
  BY <1>3 DEF Refuses, back
<1>11. /\ promise' \in [Stores -> Nat] /\ refused' \in [Stores -> Nat]
       /\ \A q \in Procs : promise'[q] = promise[q] /\ refused'[q] = refused[q]
  BY <1>1, <1>8, <1>10, BackendAssumption DEF Stores
<1>12. ASSUME Reflects(z)
       PROVE  After(admitted[Redis], now - Window - MaxSkew) >= Limit
  <2> DEFINE c == now - Window - MaxSkew
  <2>0. c \in Int /\ c <= now - Window - MaxSkew
    BY <1>1, ClocksAre, WindowIs
  <2> HIDE DEF c
  <2>1. c + Fastest \in Int /\ c + Fastest <= clock - Window
    BY <1>1, <2>0, ClockIs DEF clock
  <2>2. ScoredAfter(z, c + Fastest) = z
    <3>1. clock - Window \in Int
      BY <1>1, WindowIs
    <3>2. \A e \in z : e.score > c + Fastest
      BY <1>4, <2>1, <3>1
    <3> QED BY <3>2 DEF ScoredAfter
  <2>3. Cardinality(ScoredAfter(z, c + Fastest)) <= After(admitted[Redis], c)
    BY <1>12, <2>0 DEF Reflects, c
  <2> QED BY <1>5, <2>2, <2>3 DEF c
<1>13. ASSUME z = zset, PromisesOfRedis PROVE PromisesOfRedis'
  <2>1. refused'[Redis] = now /\ promise'[Redis] \in Nat
    BY <1>1, <1>10, <1>11
  <2>2. CASE promise'[Redis] = back
    <3>1. now < back + MaxSkew
      BY <1>1, <1>8, ClocksAre
    <3>2. \E e \in zset' : back >= e.score + Window - Fastest
      BY <1>3, <1>6, <1>9
    <3> QED BY <2>1, <2>2, <3>1, <3>2 DEF PromisesOfRedis
  <2>3. CASE promise'[Redis] = promise[Redis] /\ promise[Redis] # 0
    <3>1. ~(Cardinality(zset) < Limit)
      BY <1>1, <1>5, <1>13
    <3>2. PICK e \in zset : promise[Redis] >= e.score + Window - Fastest
      BY <1>13, <2>3, <3>1 DEF PromisesOfRedis
    <3>3. e.score \in Nat /\ e.score > clock - Window
      BY <1>4, <1>13
    <3>4. now < promise[Redis] + MaxSkew
      <4>1. /\ promise[Redis] \in Nat /\ now \in Nat /\ clock \in Nat
            /\ clock >= now + Slowest /\ Slowest \in Nat /\ Fastest \in Nat
            /\ MaxSkew = Fastest - Slowest /\ Window \in Nat
        BY <1>1, ClocksAre, WindowIs
      <4> QED BY <3>2, <3>3, <4>1
    <3>5. zset' = zset
      BY <1>3, <1>13
    <3> QED BY <2>1, <2>3, <3>2, <3>4, <3>5 DEF PromisesOfRedis
  <2>4. promise'[Redis] = IF promise[Redis] = 0 \/ back < promise[Redis] THEN back
                                                                         ELSE promise[Redis]
    BY <1>1, <1>10
  <2> QED BY <2>2, <2>3, <2>4
<1> QED BY <1>3, <1>10, <1>11, <1>12, <1>13

\* An admission: one more in the set and one more in the history.
LEMMA RedisAdmits ==
    ASSUME LimiterInv, NEW z, Members(z), Covers(z), NEW p \in Procs,
           AskRedis(p, z), now' = now, ~Full(Cardinality(Live(z, Clock(p))))
    PROVE  /\ Members(zset') /\ Covers(zset)'
           /\ Reflects(z) => Reflects(zset)'
           /\ admitted' \in [Stores -> Seq(Nat)]
           /\ promise' \in [Stores -> Nat] /\ refused' = refused
           /\ promise'[Redis] = 0
           /\ \A q \in Procs : promise'[q] = promise[q] /\ admitted'[q] = admitted[q]
           /\ admitted'[Redis] = Append(admitted[Redis], now)
<1> DEFINE clock == Clock(p)
           live == Live(z, clock)
           next == Scripted(z, clock)
<1>1. /\ now \in Nat /\ clock \in Nat /\ clock = now + Skew[p] /\ Skew[p] \in Nat
      /\ admitted \in [Stores -> Seq(Nat)] /\ admitted[Redis] \in Seq(Nat)
      /\ promise \in [Stores -> Nat] /\ Redis \in Stores
  BY ClocksAre DEF LimiterInv, LimiterTypeOK, Clock, Stores
<1>2. zset' = next /\ Admits(Redis)
  BY DEF AskRedis
<1>3. /\ admitted' = [admitted EXCEPT ![Redis] = Append(@, now)]
      /\ promise' = [promise EXCEPT ![Redis] = 0] /\ refused' = refused
  BY <1>2 DEF Admits
<1>4. /\ admitted' \in [Stores -> Seq(Nat)] /\ promise' \in [Stores -> Nat]
      /\ promise'[Redis] = 0 /\ admitted'[Redis] = Append(admitted[Redis], now)
      /\ \A q \in Procs : promise'[q] = promise[q] /\ admitted'[q] = admitted[q]
  BY <1>1, <1>3, BackendAssumption DEF Stores
<1> HIDE DEF clock
<1>5. ~Full(Cardinality(live))
  BY DEF clock
<1>6. /\ live \in SUBSET z /\ Members(next)
      /\ \A at \in Int :
            /\ at >= clock - Window => ScoredAfter(live, at) = ScoredAfter(z, at)
            /\ Cardinality(ScoredAfter(next, at)) =
                   Cardinality(ScoredAfter(live, at)) + IF clock > at THEN 1 ELSE 0
  <2>1. /\ live \in SUBSET z /\ Members(next)
        /\ \A at \in Int :
              /\ at >= clock - Window => ScoredAfter(live, at) = ScoredAfter(z, at)
              /\ ~Full(Cardinality(live)) =>
                    Cardinality(ScoredAfter(next, at)) =
                       Cardinality(ScoredAfter(live, at)) + IF clock > at THEN 1 ELSE 0
    <3>1. clock \in Nat
      BY <1>1
    <3> QED BY <3>1, ScriptedIs
  <2> HIDE DEF live, next
  <2> QED BY <1>5, <2>1
<1> HIDE DEF live, next
<1>7. \A at \in Int : /\ Cardinality(ScoredAfter(live, at)) \in Nat
                      /\ Cardinality(ScoredAfter(z, at)) \in Nat
                      /\ Cardinality(ScoredAfter(live, at)) <= Cardinality(ScoredAfter(z, at))
  BY <1>6, ScoredAfterIs
<1>8. ASSUME NEW c \in Int
      PROVE  After(admitted'[Redis], c) =
                 After(admitted[Redis], c) + IF now > c THEN 1 ELSE 0
  BY <1>1, <1>4, AfterAppend
<1>9. ASSUME NEW c \in Int
      PROVE  After(admitted[Redis], c) \in Nat
  BY <1>1, AfterIs
<1>10. ASSUME NEW c \in Int, c >= now - Window + MaxSkew
       PROVE  After(admitted'[Redis], c) <= Cardinality(ScoredAfter(next, c + Slowest))
  <2>1. c + Slowest \in Int /\ c + Slowest >= clock - Window
    BY <1>1, <1>10, ClockIs DEF clock
  <2>2. After(admitted[Redis], c) <= Cardinality(ScoredAfter(z, c + Slowest))
    BY <1>10 DEF Covers
  <2>3. now > c => clock > c + Slowest
    BY <1>1, ClockIs DEF clock
  <2>4. Cardinality(ScoredAfter(next, c + Slowest)) =
            Cardinality(ScoredAfter(z, c + Slowest)) + IF clock > c + Slowest THEN 1 ELSE 0
    BY <1>6, <2>1
  <2> QED BY <1>7, <1>8, <1>9, <2>1, <2>2, <2>3, <2>4
<1>11. ASSUME Reflects(z), NEW c \in Int, c >= now - Window - MaxSkew
       PROVE  Cardinality(ScoredAfter(next, c + Fastest)) <= After(admitted'[Redis], c)
  <2>1. c + Fastest \in Int
    BY ClocksAre
  <2>2. Cardinality(ScoredAfter(z, c + Fastest)) <= After(admitted[Redis], c)
    BY <1>11 DEF Reflects
  <2>3. clock > c + Fastest => now > c
    BY <1>1, ClockIs DEF clock
  <2>4. Cardinality(ScoredAfter(next, c + Fastest)) =
            Cardinality(ScoredAfter(live, c + Fastest)) + IF clock > c + Fastest THEN 1 ELSE 0
    BY <1>6, <2>1
  <2> QED BY <1>7, <1>8, <1>9, <2>1, <2>2, <2>3, <2>4
<1>12. Covers(zset)'
  BY <1>2, <1>10 DEF Covers
<1>13. Reflects(z) => Reflects(zset)'
  BY <1>2, <1>11 DEF Reflects
<1> QED BY <1>2, <1>3, <1>4, <1>6, <1>12, <1>13

\* Both together: a check of Redis that finds the set z.
LEMMA RedisAsked ==
    ASSUME LimiterInv, NEW z, Members(z), Covers(z), NEW p \in Procs,
           AskRedis(p, z), now' = now
    PROVE  /\ ttl' \in Nat /\ Members(zset') /\ Covers(zset)' /\ KeyOutlives'
           /\ admitted' \in [Stores -> Seq(Nat)]
           /\ promise' \in [Stores -> Nat] /\ refused' \in [Stores -> Nat]
           /\ \A q \in Procs : /\ admitted'[q] = admitted[q]
                               /\ promise'[q] = promise[q] /\ refused'[q] = refused[q]
           /\ Reflects(z) => Reflects(zset)'
           /\ Reflects(z) /\ refused' # refused =>
                 After(admitted[Redis], now - Window - MaxSkew) >= Limit
           /\ z = zset /\ PromisesOfRedis => PromisesOfRedis'
<1>1. /\ now \in Nat /\ admitted \in [Stores -> Seq(Nat)] /\ refused \in [Stores -> Nat]
      /\ Redis \in Stores /\ admitted[Redis] \in Seq(Nat)
  BY DEF LimiterInv, LimiterTypeOK, Stores
<1>2. ttl' = now + Window
  BY DEF AskRedis
<1>3. ttl' \in Nat /\ ttl' # 0 /\ ttl' - Window = now
  BY <1>1, <1>2, WindowIs
<1>4. \A i \in 1..Len(admitted[Redis]) : admitted[Redis][i] <= now
  BY DEF LimiterInv, KeyOutlives
<1>5. CASE Full(Cardinality(Live(z, Clock(p))))
  <2>1. /\ zset' = z /\ admitted' = admitted
        /\ promise' \in [Stores -> Nat] /\ refused' \in [Stores -> Nat]
        /\ \A q \in Procs : promise'[q] = promise[q] /\ refused'[q] = refused[q]
        /\ Reflects(z) => After(admitted[Redis], now - Window - MaxSkew) >= Limit
        /\ z = zset /\ PromisesOfRedis => PromisesOfRedis'
    BY <1>5, RedisRefuses
  <2>2. KeyOutlives'
    BY <1>3, <1>4, <2>1 DEF KeyOutlives
  <2>3. Covers(zset)'
    BY <2>1 DEF Covers
  <2>4. Reflects(z) => Reflects(zset)'
    BY <2>1 DEF Reflects
  <2> QED BY <1>1, <1>3, <2>1, <2>2, <2>3, <2>4
<1>6. CASE ~Full(Cardinality(Live(z, Clock(p))))
  <2>1. /\ Members(zset') /\ Covers(zset)'
        /\ Reflects(z) => Reflects(zset)'
        /\ admitted' \in [Stores -> Seq(Nat)]
        /\ promise' \in [Stores -> Nat] /\ refused' = refused
        /\ promise'[Redis] = 0
        /\ \A q \in Procs : promise'[q] = promise[q] /\ admitted'[q] = admitted[q]
        /\ admitted'[Redis] = Append(admitted[Redis], now)
    BY <1>6, RedisAdmits
  <2>2. \A i \in 1..Len(admitted'[Redis]) : admitted'[Redis][i] <= now
    <3> DEFINE n == Len(admitted[Redis])
    <3>1. /\ n \in Nat /\ Len(admitted'[Redis]) = n + 1 /\ admitted'[Redis][n + 1] = now
          /\ \A i \in 1..n : admitted'[Redis][i] = admitted[Redis][i]
      BY <1>1, <2>1
    <3>2. \A i \in 1..(n + 1) : i \in 1..n \/ i = n + 1
      BY <3>1
    <3>3. \A i \in 1..n : admitted[Redis][i] <= now
      BY <1>4
    <3>4. now <= now
      BY <1>1
    <3> HIDE DEF n
    <3> QED BY <3>1, <3>2, <3>3, <3>4
  <2>3. KeyOutlives'
    BY <1>3, <2>2 DEF KeyOutlives
  <2>4. PromisesOfRedis'
    BY <2>1 DEF PromisesOfRedis
  <2> QED BY <1>1, <1>3, <2>1, <2>3, <2>4
<1> QED BY <1>5, <1>6

-----------------------------------------------------------------------------
(* Every step keeps the invariant, and refuses only where it should.        *)

RefusesFull ==
    \A s \in Stores : refused'[s] # refused[s] => AdmittedWithin(s, Window + Drift(s)) >= Limit

LEMMA RefusalsOfMemory ==
    ASSUME LimiterInv, NEW p \in Procs, AskMemory(p), now' = now
    PROVE  RefusesFull
<1>1. /\ \A s \in Stores \ {p} : refused'[s] = refused[s]
      /\ refused' # refused => After(admitted[p], now - Window) >= Limit
      /\ now \in Nat
  BY MemoryAsked DEF LimiterInv, LimiterTypeOK
<1>2. p # Redis /\ now - (Window + 0) = now - Window
  BY <1>1, BackendAssumption, WindowIs
<1> QED BY <1>1, <1>2 DEF RefusesFull, AdmittedWithin, Drift

LEMMA RefusalsOfRedis ==
    ASSUME LimiterInv, NEW p \in Procs, AskRedis(p, zset), now' = now, Reflects(zset)
    PROVE  RefusesFull
<1>1. Members(zset) /\ Covers(zset) /\ now \in Nat
  BY DEF LimiterInv, LimiterTypeOK
<1>2. /\ \A q \in Procs : refused'[q] = refused[q]
      /\ refused' # refused => After(admitted[Redis], now - Window - MaxSkew) >= Limit
  BY <1>1, RedisAsked
<1>3. now - (Window + MaxSkew) = now - Window - MaxSkew
  BY <1>1, WindowIs, ClocksAre
<1> QED BY <1>2, <1>3 DEF RefusesFull, AdmittedWithin, Drift, Stores

\* The memory stores keep what they have while only Redis is asked.
LEMMA DequesStay ==
    ASSUME LimiterInv, deque' = deque, now' = now,
           \A q \in Procs : admitted'[q] = admitted[q]
    PROVE  DequesTell'
BY DEF LimiterInv, DequesTell, Past

\* And Redis while only memory is asked.
LEMMA RedisStays ==
    ASSUME LimiterInv, zset' = zset, ttl' = ttl, now' = now, admitted'[Redis] = admitted[Redis]
    PROVE  /\ ttl' \in Nat /\ Members(zset') /\ Covers(zset)' /\ KeyOutlives'
           /\ Reflects(zset) => Reflects(zset)'
<1>1. KeyOutlives'
  BY DEF LimiterInv, KeyOutlives
<1>2. ttl' \in Nat /\ Members(zset')
  BY DEF LimiterInv, LimiterTypeOK
<1>3. Covers(zset)'
  BY DEF LimiterInv, Covers
<1>4. Reflects(zset) => Reflects(zset)'
  BY DEF Reflects
<1> QED BY <1>1, <1>2, <1>3, <1>4

\* Each step keeps the invariant.
LEMMA RequestKeeps ==
    ASSUME LimiterInv, NEW p \in Procs, Request(p)
    PROVE  LimiterInv' /\ (faults' = 0 => RefusesFull)
<1>1. now' = now /\ backend' = backend /\ faults' = faults
  BY DEF Request
<1>2. /\ now \in Nat /\ backend \in [Procs -> Stores] /\ faults \in 0..MaxFaults
      /\ deque \in [Procs -> Seq(Nat)] /\ \A q \in Procs : Len(deque[q]) <= Limit
      /\ p \in Stores /\ Redis \in Stores /\ p # Redis
  BY BackendAssumption DEF LimiterInv, LimiterTypeOK, Stores
<1>3. CASE backend[p] = p /\ AskMemory(p) /\ UNCHANGED <<zset, ttl>>
  <2>1. /\ deque' \in [Procs -> Seq(Nat)] /\ \A q \in Procs : Len(deque'[q]) <= Limit
        /\ admitted' \in [Stores -> Seq(Nat)]
        /\ promise' \in [Stores -> Nat] /\ refused' \in [Stores -> Nat]
        /\ DequesTell'
        /\ admitted'[Redis] = admitted[Redis]
    BY <1>1, <1>2, <1>3, MemoryAsked
  <2>2. /\ ttl' \in Nat /\ Members(zset') /\ Covers(zset)' /\ KeyOutlives'
        /\ Reflects(zset) => Reflects(zset)'
    BY <1>1, <1>3, <2>1, RedisStays
  <2>3. LimiterTypeOK'
    BY <1>1, <1>2, <2>1, <2>2 DEF LimiterTypeOK, Members
  <2>4. Faultless'
    BY <1>1, <2>2 DEF LimiterInv, Faultless
  <2>5. PromiseStands'
    <3>1. ~(faults = 0 /\ Backend = "redis")
      BY <1>2, <1>3 DEF LimiterInv, Faultless, Initial
    <3> QED BY <1>1, <3>1 DEF PromiseStands
  <2> QED BY <1>1, <1>3, <2>1, <2>2, <2>3, <2>4, <2>5, RefusalsOfMemory DEF LimiterInv
<1>4. CASE backend[p] = Redis /\ AskRedis(p, zset) /\ UNCHANGED deque
  <2>1. Members(zset) /\ Covers(zset)
    BY DEF LimiterInv
  <2>2. /\ ttl' \in Nat /\ Members(zset') /\ Covers(zset)' /\ KeyOutlives'
        /\ admitted' \in [Stores -> Seq(Nat)]
        /\ promise' \in [Stores -> Nat] /\ refused' \in [Stores -> Nat]
        /\ \A q \in Procs : /\ admitted'[q] = admitted[q]
                            /\ promise'[q] = promise[q] /\ refused'[q] = refused[q]
        /\ Reflects(zset) => Reflects(zset)'
        /\ PromisesOfRedis => PromisesOfRedis'
    BY <1>1, <1>4, <2>1, RedisAsked
  <2>3. DequesTell'
    BY <1>1, <1>4, <2>2, DequesStay
  <2>4. LimiterTypeOK'
    BY <1>1, <1>2, <1>4, <2>2 DEF LimiterTypeOK, Members
  <2>5. Faultless'
    BY <1>1, <2>2 DEF LimiterInv, Faultless
  <2>6. PromiseStands'
    BY <1>1, <2>2 DEF LimiterInv, PromiseStands, PromisesOfRedis
  <2>7. faults' = 0 => RefusesFull
    BY <1>1, <1>4, RefusalsOfRedis DEF LimiterInv, Faultless
  <2> QED BY <2>2, <2>3, <2>4, <2>5, <2>6, <2>7 DEF LimiterInv
<1> QED BY <1>3, <1>4 DEF Request, Check

\* A step that counts a fault has nothing to keep of what holds without faults.
LEMMA FaultKeeps ==
    ASSUME LimiterInv, Fault
    PROVE  faults' \in 0..MaxFaults /\ faults' # 0 /\ Faultless' /\ PromiseStands'
<1>1. faults' \in 0..MaxFaults /\ faults' # 0
  BY BackendAssumption DEF LimiterInv, LimiterTypeOK, Fault
<1> QED BY <1>1 DEF Faultless, PromiseStands

LEMMA TwiceKeeps ==
    ASSUME LimiterInv, NEW p \in Procs, RequestTwice(p)
    PROVE  LimiterInv' /\ faults' # 0
<1>1. /\ now' = now /\ backend' = backend /\ deque' = deque /\ Fault
      /\ AskRedis(p, Scripted(zset, Clock(p)))
  BY DEF RequestTwice
<1>2. /\ now \in Nat /\ backend \in [Procs -> Stores]
      /\ deque \in [Procs -> Seq(Nat)] /\ \A q \in Procs : Len(deque[q]) <= Limit
      /\ Members(zset) /\ Covers(zset)
  BY DEF LimiterInv, LimiterTypeOK
<1>3. Members(Scripted(zset, Clock(p))) /\ Covers(Scripted(zset, Clock(p)))
  BY <1>2, ScriptCovers
<1>4. /\ ttl' \in Nat /\ Members(zset') /\ Covers(zset)' /\ KeyOutlives'
      /\ admitted' \in [Stores -> Seq(Nat)]
      /\ promise' \in [Stores -> Nat] /\ refused' \in [Stores -> Nat]
      /\ \A q \in Procs : admitted'[q] = admitted[q]
  BY <1>1, <1>3, RedisAsked
<1>5. DequesTell'
  BY <1>1, <1>4, DequesStay
<1>6. faults' \in 0..MaxFaults /\ faults' # 0 /\ Faultless' /\ PromiseStands'
  BY <1>1, FaultKeeps
<1>7. LimiterTypeOK'
  BY <1>1, <1>2, <1>4, <1>6 DEF LimiterTypeOK, Members
<1> QED BY <1>4, <1>5, <1>6, <1>7 DEF LimiterInv

LEMMA DegradesKeeps ==
    ASSUME LimiterInv, NEW p \in Procs, RequestDegrades(p)
    PROVE  LimiterInv' /\ faults' # 0
<1>1. /\ now' = now /\ Fault /\ AskMemory(p)
      /\ backend' = [backend EXCEPT ![p] = p]
      /\ \/ UNCHANGED <<zset, ttl>>
         \/ zset' = Scripted(zset, Clock(p)) /\ ttl' = now + Window
  BY DEF RequestDegrades
<1>2. /\ now \in Nat /\ backend \in [Procs -> Stores]
      /\ p \in Stores /\ Redis \in Stores /\ p # Redis
      /\ Members(zset) /\ Covers(zset) /\ KeyOutlives
  BY BackendAssumption DEF LimiterInv, LimiterTypeOK, Stores
<1>3. /\ deque' \in [Procs -> Seq(Nat)] /\ \A q \in Procs : Len(deque'[q]) <= Limit
      /\ admitted' \in [Stores -> Seq(Nat)]
      /\ promise' \in [Stores -> Nat] /\ refused' \in [Stores -> Nat]
      /\ DequesTell'
      /\ admitted'[Redis] = admitted[Redis]
  BY <1>1, <1>2, MemoryAsked
<1>4. /\ ttl' \in Nat /\ Members(zset') /\ Covers(zset)' /\ KeyOutlives'
  <2>1. CASE UNCHANGED <<zset, ttl>>
    BY <1>1, <1>3, <2>1, RedisStays
  <2>2. CASE zset' = Scripted(zset, Clock(p)) /\ ttl' = now + Window
    <3>1. Members(zset') /\ Covers(zset')
      BY <1>2, <2>2, ScriptCovers
    <3>2. Covers(zset)'
      BY <1>1, <1>3, <3>1 DEF Covers
    <3>3. ttl' \in Nat /\ ttl' # 0 /\ ttl' - Window = now
      BY <1>2, <2>2, WindowIs
    <3>4. KeyOutlives'
      BY <1>1, <1>2, <1>3, <3>3 DEF KeyOutlives
    <3> QED BY <3>1, <3>2, <3>3, <3>4
  <2> QED BY <1>1, <2>1, <2>2
<1>5. faults' \in 0..MaxFaults /\ faults' # 0 /\ Faultless' /\ PromiseStands'
  BY <1>1, FaultKeeps
<1>6. backend' \in [Procs -> Stores]
  BY <1>1, <1>2
<1>7. LimiterTypeOK'
  BY <1>1, <1>2, <1>3, <1>4, <1>5, <1>6 DEF LimiterTypeOK, Members
<1> QED BY <1>3, <1>4, <1>5, <1>7 DEF LimiterInv

LEMMA RestartKeeps ==
    ASSUME LimiterInv, NEW p \in Procs, RestartLimiter(p)
    PROVE  LimiterInv' /\ faults' # 0
<1>1. /\ Fault /\ now' = now /\ zset' = zset /\ ttl' = ttl
      /\ backend' \in {[backend EXCEPT ![p] = Initial(p)], [backend EXCEPT ![p] = p]}
      /\ deque' = [deque EXCEPT ![p] = <<>>]
      /\ admitted' = [admitted EXCEPT ![p] = <<>>]
      /\ promise' = [promise EXCEPT ![p] = 0]
      /\ refused' = [refused EXCEPT ![p] = 0]
  BY DEF RestartLimiter
<1>2. /\ now \in Nat /\ backend \in [Procs -> Stores] /\ Limit \in Nat
      /\ deque \in [Procs -> Seq(Nat)] /\ \A q \in Procs : Len(deque[q]) <= Limit
      /\ admitted \in [Stores -> Seq(Nat)]
      /\ promise \in [Stores -> Nat] /\ refused \in [Stores -> Nat]
      /\ p \in Stores /\ Redis \in Stores /\ p # Redis
  BY BackendAssumption, LimitAssumption DEF LimiterInv, LimiterTypeOK, Stores
<1>3. <<>> \in Seq(Nat) /\ Len(<<>>) = 0 /\ 1..0 = {}
  OBVIOUS
<1>4. /\ deque' \in [Procs -> Seq(Nat)]
      /\ deque'[p] = <<>> /\ \A q \in Procs \ {p} : deque'[q] = deque[q]
      /\ admitted' \in [Stores -> Seq(Nat)]
      /\ admitted'[p] = <<>> /\ \A s \in Stores \ {p} : admitted'[s] = admitted[s]
      /\ promise' \in [Stores -> Nat] /\ refused' \in [Stores -> Nat]
  BY <1>1, <1>2, <1>3
<1>5. \A q \in Procs : Len(deque'[q]) <= Limit
  <2>1. 0 <= Limit
    BY <1>2
  <2> QED BY <1>2, <1>3, <1>4, <2>1
<1>6. backend' \in [Procs -> Stores]
  BY <1>1, <1>2 DEF Initial
<1>7. DequesTell'
  <2> SUFFICES ASSUME NEW q \in Procs PROVE MemoryTells(q)'
    BY DEF DequesTell, MemoryTells
  <2>1. CASE q = p
    BY <1>3, <1>4, <2>1 DEF MemoryTells, Past, InOrder
  <2>2. CASE q # p
    <3>1. q \in Stores \ {p} /\ q \in Procs \ {p}
      BY <2>2 DEF Stores
    <3> QED BY <1>1, <1>4, <3>1 DEF MemoryTells, Past, LimiterInv, DequesTell
  <2> QED BY <2>1, <2>2
<1>8. /\ ttl' \in Nat /\ Members(zset') /\ Covers(zset)' /\ KeyOutlives'
  BY <1>1, <1>2, <1>4, RedisStays
<1>9. faults' \in 0..MaxFaults /\ faults' # 0 /\ Faultless' /\ PromiseStands'
  BY <1>1, FaultKeeps
<1>10. LimiterTypeOK'
  BY <1>1, <1>2, <1>4, <1>5, <1>6, <1>8, <1>9 DEF LimiterTypeOK, Members
<1> QED BY <1>7, <1>8, <1>9, <1>10 DEF LimiterInv

\* What a window ago and the clocks' disagreement later is, is after the window.
LEMMA WindowsAre ==
    ASSUME NEW t \in Int, NEW c \in Int, c >= t - Window + MaxSkew
    PROVE  /\ c >= t - Window - MaxSkew
           /\ \A x \in Int : x <= t - Window => x <= c
<1>1. Window \in Int /\ MaxSkew \in Int /\ MaxSkew >= 0
  BY WindowIs, ClocksAre
<1> QED BY <1>1

LEMMA ElapseKeeps ==
    ASSUME LimiterInv, Elapse
    PROVE  LimiterInv' /\ refused' = refused
<1>1. /\ now' = now + 1
      /\ IF ttl <= now' THEN zset' = {} /\ ttl' = 0 ELSE zset' = zset /\ ttl' = ttl
      /\ admitted' = [s \in Stores |-> Pruned(admitted[s], now' - Window - MaxSkew)]
      /\ backend' = backend /\ deque' = deque /\ faults' = faults
      /\ promise' = promise /\ refused' = refused
  BY DEF Elapse
<1>2. /\ now \in Nat /\ now' \in Nat /\ ttl \in Nat /\ deque \in [Procs -> Seq(Nat)]
      /\ admitted \in [Stores -> Seq(Nat)] /\ Redis \in Stores
      /\ \A p \in Procs : p \in Stores
      /\ now' - Window - MaxSkew \in Int
  BY <1>1, ClocksAre, WindowIs DEF LimiterInv, LimiterTypeOK, Stores
<1>3. ASSUME NEW s \in Stores
      PROVE  /\ admitted'[s] \in Seq(Nat)
             /\ \A i \in 1..Len(admitted'[s]) :
                   \E j \in 1..Len(admitted[s]) : admitted'[s][i] = admitted[s][j]
             /\ \A c \in Int : c >= now' - Window - MaxSkew =>
                   After(admitted'[s], c) = After(admitted[s], c)
  <2>1. admitted'[s] = Pruned(admitted[s], now' - Window - MaxSkew) /\ admitted[s] \in Seq(Nat)
    BY <1>1, <1>2
  <2>2. admitted[s] \in Seq(Nat) /\ now' - Window - MaxSkew \in Int
    BY <1>2, <2>1
  <2>3. /\ Pruned(admitted[s], now' - Window - MaxSkew) \in Seq(Nat)
        /\ \A i \in 1..Len(Pruned(admitted[s], now' - Window - MaxSkew)) :
              \E j \in 1..Len(admitted[s]) :
                  Pruned(admitted[s], now' - Window - MaxSkew)[i] = admitted[s][j]
        /\ \A c \in Int : c >= now' - Window - MaxSkew =>
              After(Pruned(admitted[s], now' - Window - MaxSkew), c) = After(admitted[s], c)
    BY <2>2, PrunedTells
  <2> QED BY <2>1, <2>3
<1>4. DequesTell'
  <2> SUFFICES ASSUME NEW p \in Procs PROVE MemoryTells(p)'
    BY DEF DequesTell, MemoryTells
  <2>1. /\ InOrder(deque[p]) /\ Past(deque[p]) /\ deque[p] \in Seq(Nat)
        /\ \A c \in Int : c >= now - Window => After(admitted[p], c) = After(deque[p], c)
    BY <1>2 DEF LimiterInv, DequesTell
  <2>2. \A i \in 1..Len(deque[p]) : deque[p][i] <= now'
    <3>1. \A i \in 1..Len(deque[p]) : deque[p][i] \in Nat /\ deque[p][i] <= now
      BY <2>1 DEF Past
    <3> QED BY <1>1, <1>2, <3>1
  <2>3. ASSUME NEW c \in Int, c >= now' - Window
        PROVE  After(admitted'[p], c) = After(deque[p], c)
    <3>1. c >= now - Window /\ c >= now' - Window - MaxSkew
      BY <1>1, <1>2, <2>3, ClocksAre, WindowIs
    <3> QED BY <1>2, <1>3, <2>1, <3>1
  <2> QED BY <1>1, <2>1, <2>2, <2>3 DEF MemoryTells, Past
<1>5. /\ ttl = 0 => zset = {}
      /\ \A i \in 1..Len(admitted[Redis]) :
            /\ admitted[Redis][i] \in Nat /\ admitted[Redis][i] <= now
            /\ admitted[Redis][i] <= (IF ttl = 0 THEN now ELSE ttl) - Window
  BY <1>2 DEF LimiterInv, KeyOutlives
<1>6. CASE ttl <= now'
  <2>1. zset' = {} /\ ttl' = 0
    BY <1>1, <1>6
  <2>2. \A i \in 1..Len(admitted[Redis]) :
            admitted[Redis][i] <= now' /\ admitted[Redis][i] <= now' - Window
    BY <1>1, <1>2, <1>5, <1>6, WindowIs
  <2>3. KeyOutlives'
    <3>1. \A i \in 1..Len(admitted'[Redis]) :
              admitted'[Redis][i] <= now' /\ admitted'[Redis][i] <= now' - Window
      BY <1>2, <1>3, <2>2
    <3> QED BY <2>1, <3>1 DEF KeyOutlives
  <2>4. Members({}) /\ Cardinality({}) = 0 /\ IsFiniteSet({})
    BY FS_EmptySet, LimitAssumption DEF Members
  <2>5. ASSUME NEW at \in Int PROVE ScoredAfter({}, at) = {}
    BY DEF ScoredAfter
  <2>6. ASSUME NEW c \in Int, c >= now' - Window + MaxSkew
        PROVE  After(admitted'[Redis], c) = 0
    <3>0. now' \in Int
      BY <1>2
    <3>1. /\ c >= now' - Window - MaxSkew
          /\ \A x \in Int : x <= now' - Window => x <= c
      BY <2>6, <3>0, WindowsAre
    <3>2. ASSUME NEW i \in 1..Len(admitted[Redis]) PROVE admitted[Redis][i] <= c
      <4>1. admitted[Redis][i] \in Int /\ admitted[Redis][i] <= now' - Window
        BY <1>5, <2>2
      <4> QED BY <3>1, <4>1
    <3>3. After(admitted[Redis], c) = 0
      <4>1. admitted[Redis] \in Seq(Nat)
        BY <1>2
      <4> QED BY <3>2, <4>1, AfterIs
    <3> QED BY <1>2, <1>3, <3>1, <3>3
  <2>7. Covers(zset)'
    <3> SUFFICES ASSUME NEW c \in Int, c >= now' - Window + MaxSkew
                 PROVE  After(admitted'[Redis], c) <= Cardinality(ScoredAfter({}, c + Slowest))
      BY <2>1 DEF Covers
    <3>1. c + Slowest \in Int
      BY ClocksAre
    <3>2. After(admitted'[Redis], c) = 0
      BY <2>6
    <3>3. Cardinality(ScoredAfter({}, c + Slowest)) = 0
      BY <2>4, <2>5, <3>1
    <3> QED BY <3>2, <3>3
  <2>8. Reflects(zset)'
    <3> SUFFICES ASSUME NEW c \in Int
                 PROVE  Cardinality(ScoredAfter({}, c + Fastest)) <= After(admitted'[Redis], c)
      BY <2>1 DEF Reflects
    <3>1. c + Fastest \in Int
      BY ClocksAre
    <3>2. admitted'[Redis] \in Seq(Nat)
      BY <1>2, <1>3
    <3>3. After(admitted'[Redis], c) \in Nat
      BY <3>2, AfterIs
    <3>4. Cardinality(ScoredAfter({}, c + Fastest)) = 0
      BY <2>4, <2>5, <3>1
    <3> QED BY <3>3, <3>4
  <2>9. Faultless'
    BY <1>1, <2>8 DEF LimiterInv, Faultless
  <2>10. PromiseStands'
    <3>1. Cardinality(zset') < Limit
      BY <2>1, <2>4, LimitAssumption
    <3> QED BY <1>1, <3>1 DEF LimiterInv, PromiseStands
  <2>11. LimiterTypeOK'
    BY <1>1, <1>2, <1>3, <2>1 DEF LimiterInv, LimiterTypeOK
  <2> QED BY <1>1, <1>4, <2>1, <2>3, <2>4, <2>7, <2>9, <2>10, <2>11 DEF LimiterInv
<1>7. CASE ~(ttl <= now')
  <2>1. zset' = zset /\ ttl' = ttl
    BY <1>1, <1>7
  <2>2. KeyOutlives'
    <3>1. ttl # 0
      BY <1>2, <1>7
    <3>2. \A i \in 1..Len(admitted[Redis]) :
              admitted[Redis][i] <= now' /\ admitted[Redis][i] <= ttl - Window
      BY <1>1, <1>2, <1>5, <3>1
    <3>3. \A i \in 1..Len(admitted'[Redis]) :
              admitted'[Redis][i] <= now' /\ admitted'[Redis][i] <= ttl - Window
      BY <1>2, <1>3, <3>2
    <3> QED BY <2>1, <3>1, <3>3 DEF KeyOutlives
  <2>3. ASSUME NEW c \in Int, c >= now' - Window - MaxSkew
        PROVE  c >= now - Window - MaxSkew /\ After(admitted'[Redis], c) = After(admitted[Redis], c)
    <3>1. c >= now - Window - MaxSkew /\ c >= now' - Window - MaxSkew
      BY <1>1, <1>2, <2>3, ClocksAre, WindowIs
    <3> QED BY <1>2, <1>3, <3>1
  <2>4. Covers(zset)'
    <3> SUFFICES ASSUME NEW c \in Int, c >= now' - Window + MaxSkew
                 PROVE  After(admitted'[Redis], c) <= Cardinality(ScoredAfter(zset, c + Slowest))
      BY <2>1 DEF Covers
    <3>1. c >= now' - Window - MaxSkew /\ c >= now - Window + MaxSkew
      BY <1>1, <1>2, ClocksAre, WindowIs
    <3> QED BY <2>3, <3>1 DEF LimiterInv, Covers
  <2>5. Reflects(zset) => Reflects(zset)'
    BY <2>1, <2>3 DEF Reflects
  <2>6. Faultless'
    BY <1>1, <2>5 DEF LimiterInv, Faultless
  <2>7. PromiseStands'
    BY <1>1, <2>1 DEF LimiterInv, PromiseStands
  <2>8. LimiterTypeOK'
    BY <1>1, <1>2, <1>3, <2>1 DEF LimiterInv, LimiterTypeOK
  <2> QED BY <1>1, <1>4, <2>1, <2>2, <2>4, <2>6, <2>7, <2>8 DEF LimiterInv
<1> QED BY <1>6, <1>7

LEMMA LimiterStarts == LimiterInit => LimiterInv
<1> SUFFICES ASSUME LimiterInit PROVE LimiterInv
  OBVIOUS
<1> USE DEF LimiterInit
<1>1. <<>> \in Seq(Nat) /\ Len(<<>>) = 0 /\ 1..0 = {} /\ \A i \in 1..0 : <<>>[i] <= now
  OBVIOUS
<1>2. \A s \in Stores : admitted[s] = <<>>
  OBVIOUS
<1>3. Members({}) /\ Cardinality({}) = 0
  BY FS_EmptySet, LimitAssumption DEF Members
<1>4. \A at \in Int : After(<<>>, at) = 0
  BY <1>1, AfterIs
<1>5. \A at \in Int : ScoredAfter({}, at) = {}
  BY DEF ScoredAfter
<1>6. Redis \in Stores /\ Procs \subseteq Stores
  BY DEF Stores
<1>7. LimiterTypeOK
  BY <1>1, <1>3, <1>6, WindowIs, BackendAssumption, LimitAssumption
  DEF LimiterTypeOK, Members, Initial
<1>8. DequesTell
  BY <1>1, <1>2, <1>4, <1>6 DEF DequesTell, InOrder, Past
<1>9. Covers(zset)
  <2> SUFFICES ASSUME NEW c \in Int
               PROVE  After(admitted[Redis], c) <= Cardinality(ScoredAfter(zset, c + Slowest))
    BY DEF Covers
  <2>1. c + Slowest \in Int /\ zset = {} /\ admitted[Redis] = <<>>
    BY <1>2, <1>6, ClocksAre
  <2>2. ScoredAfter(zset, c + Slowest) = {}
    BY <1>5, <2>1
  <2>3. Cardinality(ScoredAfter(zset, c + Slowest)) = 0
    BY <1>3, <2>2
  <2>4. After(admitted[Redis], c) = 0
    BY <1>4, <2>1
  <2> QED BY <2>3, <2>4
<1>10. Reflects(zset)
  <2> SUFFICES ASSUME NEW c \in Int
               PROVE  Cardinality(ScoredAfter(zset, c + Fastest)) <= After(admitted[Redis], c)
    BY DEF Reflects
  <2>1. c + Fastest \in Int /\ zset = {} /\ admitted[Redis] = <<>>
    BY <1>2, <1>6, ClocksAre
  <2>2. ScoredAfter(zset, c + Fastest) = {}
    BY <1>5, <2>1
  <2>3. Cardinality(ScoredAfter(zset, c + Fastest)) = 0
    BY <1>3, <2>2
  <2>4. After(admitted[Redis], c) = 0
    BY <1>4, <2>1
  <2> QED BY <2>3, <2>4
<1>11. KeyOutlives
  BY <1>1, <1>2, <1>6 DEF KeyOutlives
<1>12. Faultless
  BY <1>10 DEF Faultless
<1>13. PromiseStands
  BY <1>6 DEF PromiseStands
<1> QED BY <1>3, <1>7, <1>8, <1>9, <1>11, <1>12, <1>13 DEF LimiterInv

LEMMA LimiterStutters ==
    ASSUME LimiterInv, UNCHANGED limiterVars
    PROVE  LimiterInv' /\ refused' = refused
<1>1. /\ now' = now /\ backend' = backend /\ deque' = deque /\ zset' = zset /\ ttl' = ttl
      /\ faults' = faults /\ admitted' = admitted /\ promise' = promise /\ refused' = refused
  BY DEF limiterVars
<1>2. LimiterTypeOK'
  BY <1>1 DEF LimiterInv, LimiterTypeOK
<1>3. DequesTell'
  BY <1>1, DequesStay
<1>4. Members(zset') /\ Covers(zset)' /\ KeyOutlives' /\ (Reflects(zset) => Reflects(zset)')
  BY <1>1, RedisStays
<1>5. Faultless'
  BY <1>1, <1>4 DEF LimiterInv, Faultless
<1>6. PromiseStands'
  BY <1>1 DEF LimiterInv, PromiseStands
<1> QED BY <1>1, <1>2, <1>3, <1>4, <1>5, <1>6 DEF LimiterInv

LEMMA LimiterStep ==
    ASSUME LimiterInv, [LimiterNext]_limiterVars
    PROVE  LimiterInv' /\ (faults' = 0 => RefusesFull)
<1>1. ASSUME NEW p \in Procs, Request(p)
      PROVE  LimiterInv' /\ (faults' = 0 => RefusesFull)
  BY <1>1, RequestKeeps
<1>2. ASSUME NEW p \in Procs, RequestTwice(p) \/ RequestDegrades(p) \/ RestartLimiter(p)
      PROVE  LimiterInv' /\ (faults' = 0 => RefusesFull)
  BY <1>2, TwiceKeeps, DegradesKeeps, RestartKeeps
<1>3. CASE Elapse
  BY <1>3, ElapseKeeps DEF RefusesFull
<1>4. CASE UNCHANGED limiterVars
  BY <1>4, LimiterStutters DEF RefusesFull
<1> QED BY <1>1, <1>2, <1>3, <1>4 DEF LimiterNext

-----------------------------------------------------------------------------

\* The limiter's variables and history keep what they need to tell each other.
THEOREM LimiterInvariant == LimiterSpec => []LimiterInv
<1>1. LimiterInv /\ [LimiterNext]_limiterVars => LimiterInv'
  BY LimiterStep
<1> QED BY <1>1, LimiterStarts, PTL DEF LimiterSpec

\* Neither the deques nor the set in Redis grow past the limit, and a member for
\* a new event is always free.
THEOREM LimiterTypeCorrect == LimiterSpec => []LimiterTypeOK
<1>1. LimiterInv => LimiterTypeOK
  BY DEF LimiterInv
<1> QED BY <1>1, LimiterInvariant, PTL

\* The sliding window: no store admits more than the limit in a window, less the
\* time by which the clocks of its processes disagree, whatever fails.
THEOREM LimitIsKept == LimiterSpec => []WithinLimit
<1>1. LimiterInv => WithinLimit
  <2> SUFFICES ASSUME LimiterInv, NEW s \in Stores
               PROVE  AdmittedWithin(s, Window - Drift(s)) <= Limit
    BY DEF WithinLimit
  <2>1. now \in Nat /\ admitted \in [Stores -> Seq(Nat)] /\ Redis \in Stores
    BY DEF LimiterInv, LimiterTypeOK, Stores
  <2>2. CASE s = Redis
    <3> DEFINE c == now - Window + MaxSkew
    <3>1. c \in Int /\ now - (Window - MaxSkew) = c /\ c + Slowest \in Int
      BY <2>1, ClocksAre, WindowIs
    <3>2. Members(zset) /\ After(admitted[Redis], c) <= Cardinality(ScoredAfter(zset, c + Slowest))
      BY <2>1, <3>1, ClocksAre, WindowIs DEF LimiterInv, Covers
    <3>3. /\ Cardinality(ScoredAfter(zset, c + Slowest)) \in Nat
          /\ Cardinality(ScoredAfter(zset, c + Slowest)) <= Cardinality(zset)
          /\ Cardinality(zset) \in Nat /\ Cardinality(zset) <= Limit
      BY <3>1, <3>2, ScoredAfterIs DEF Members
    <3>4. After(admitted[Redis], c) \in Nat /\ Limit \in Nat
      BY <2>1, <3>1, AfterIs, LimitAssumption
    <3>5. AdmittedWithin(s, Window - Drift(s)) = After(admitted[Redis], c)
      BY <2>2, <3>1 DEF AdmittedWithin, Drift
    <3> HIDE DEF c
    <3> QED BY <3>2, <3>3, <3>4, <3>5
  <2>3. CASE s # Redis
    <3>1. s \in Procs
      BY <2>3 DEF Stores
    <3>2. now - Window \in Int /\ now - (Window - 0) = now - Window
      BY <2>1, WindowIs
    <3>3. After(admitted[s], now - Window) = After(deque[s], now - Window)
      BY <3>1, <3>2 DEF LimiterInv, DequesTell
    <3>4. deque[s] \in Seq(Nat) /\ Len(deque[s]) <= Limit
      BY <3>1 DEF LimiterInv, LimiterTypeOK
    <3>5. /\ After(deque[s], now - Window) \in Nat
          /\ After(deque[s], now - Window) <= Len(deque[s])
      BY <3>2, <3>4, AfterIs
    <3>6. Len(deque[s]) \in Nat /\ Limit \in Nat
      BY <3>4, LimitAssumption
    <3>7. AdmittedWithin(s, Window - Drift(s)) = After(admitted[s], now - Window)
      <4>1. Drift(s) = 0
        BY <2>3 DEF Drift
      <4> QED BY <3>2, <4>1 DEF AdmittedWithin
    <3> QED BY <3>3, <3>4, <3>5, <3>6, <3>7
  <2> QED BY <2>2, <2>3
<1> QED BY <1>1, LimiterInvariant, PTL

\* While no call is lost, a refusal means that the store did admit the limit, in
\* a window and the time by which the clocks disagree.
THEOREM RefusedOnlyWhenFull == LimiterSpec => RefusesOnlyWhenFull
<1>1. LimiterInv /\ [LimiterNext]_limiterVars =>
        [\A s \in Stores :
            faults' = 0 /\ refused'[s] # refused[s] =>
                AdmittedWithin(s, Window + Drift(s)) >= Limit]_limiterVars
  BY LimiterStep DEF RefusesFull
<1> QED BY <1>1, LimiterInvariant, PTL DEF LimiterSpec, RefusesOnlyWhenFull

\* "retry_after (seconds)": with Redis, which rounds it up, nobody who was not
\* overtaken is refused that much later or more, however the clocks disagree.
THEOREM RetryIsEnough == Backend = "redis" => (LimiterSpec => []RetryAfterSuffices)
<1> SUFFICES ASSUME Backend = "redis" PROVE LimiterSpec => []RetryAfterSuffices
  OBVIOUS
<1>1. LimiterInv => RetryAfterSuffices
  BY DEF LimiterInv, PromiseStands, RetryAfterSuffices, Drift, Stores
<1> QED BY <1>1, LimiterInvariant, PTL
==============================================================================
