--------------------------- MODULE WhitelistProofs ---------------------------
(***************************************************************************)
(* Proofs about Whitelist, for every set of patterns and addresses, every  *)
(* coverage relation and every bound of the clock.                         *)
(***************************************************************************)
EXTENDS Whitelist, TLAPS

USE ClockAssumption, PatternAssumption, ItemsAssumption, CoversAssumption,
    CutsAssumption, ExpiriesAssumption

\* The fields of an item and of an entry.
LEMMA FieldFacts ==
  /\ \A i \in Items : i.ip \in Patterns /\ i = [ip |-> i.ip, copy |-> i.copy]
  /\ \A e \in Entry : /\ e.ip \in Patterns /\ e.exp \in 0..Never
                      /\ [ip |-> e.ip, copy |-> e.copy] \in Items
  /\ \A i \in Items, x \in 0..Never : [ip |-> i.ip, exp |-> x, copy |-> i.copy] \in Entry
<1>1. \A i \in Items : i \in [ip : Patterns, copy : Nat \ {0}]
  OBVIOUS
<1>2. \A i \in Items : i.ip \in Patterns /\ i = [ip |-> i.ip, copy |-> i.copy]
  BY <1>1
<1> QED BY <1>2 DEF Entry

\* The expiry of an entry is a time, at the latest never.
LEMMA ExpiryFacts == \A e \in Entry : e.exp \in Int /\ e.exp <= Never
<1> SUFFICES ASSUME NEW e \in Entry PROVE e.exp \in Int /\ e.exp <= Never
  OBVIOUS
<1>1. e.exp \in 0..Never
  BY FieldFacts
<1>2. Never \in Int
  BY DEF Never
<1> QED BY <1>1, <1>2

\* The texts of a set of entries and of its live part are patterns, and what it
\* comes to in a file is a set of items; an item becomes an entry.
LEMMA EntryFacts ==
  /\ \A es \in SUBSET Entry : /\ IPs(es) \subseteq Patterns /\ Live(es) \in SUBSET Entry
                              /\ Listing(es) \subseteq Items
  /\ \A s \in SUBSET Items : IPs(s) \subseteq Patterns
  /\ \A i \in Items : Permanent(i) \in Entry
  /\ \A p \in Patterns, x \in Expiries : [ip |-> p, exp |-> x, copy |-> 1] \in Entry
<1>1. Never \in 0..Never
  BY DEF Never
<1>2. \A p \in Patterns, x \in Expiries : [ip |-> p, exp |-> x, copy |-> 1] \in Entry
  <2> TAKE p \in Patterns, x \in Expiries
  <2>1. [ip |-> p, copy |-> 1] \in Items /\ x \in 0..Never
    OBVIOUS
  <2> QED BY <2>1 DEF Entry
<1>3. \A i \in Items : Permanent(i) \in Entry
  BY <1>1, FieldFacts DEF Permanent
<1> QED BY <1>2, <1>3, FieldFacts DEF IPs, Live, Listing

\* The texts that a set of entries has in a file are its own, and a part of the
\* set has a part of them.
LEMMA ListingFacts ==
  /\ \A es : IPs(Listing(es)) = IPs(es)
  /\ \A es, fs : es \subseteq fs => Listing(es) \subseteq Listing(fs) /\ IPs(es) \subseteq IPs(fs)
<1>1. \A es : IPs(Listing(es)) = IPs(es)
  <2> TAKE es
  <2>1. \A e \in es : [ip |-> e.ip, copy |-> e.copy] \in Listing(es)
    BY DEF Listing
  <2>2. \A i \in Listing(es) : \E e \in es : i.ip = e.ip
    BY DEF Listing
  <2> QED BY <2>1, <2>2 DEF IPs
<1> QED BY <1>1 DEF IPs, Listing

\* A write that stops part of the way leaves a file of the usual shape.
LEMMA PartialType ==
  ASSUME NEW items \in SUBSET Items
  PROVE  Partial(items) \subseteq File
BY DEF Partial, CutItems, File, Written

\* Type correctness, by the cases of the next-state relation.
LEMMA TypeInit == Init => TypeOK
<1> SUFFICES ASSUME Init PROVE TypeOK
  OBVIOUS
<1>1. file \in File
  BY DEF Init, File, Written
<1>2. granted \subseteq Entry
  BY <1>1, EntryFacts DEF Init, File
<1>3. verdict \in [addr : Addrs \cup {"none"}, allowed : BOOLEAN]
  BY DEF Init, NoVerdict
<1>4. now \in 0..MaxTime
  BY ClockAssumption DEF Init
<1> QED
  <2> HIDE ClockAssumption, PatternAssumption, ItemsAssumption, CoversAssumption,
           CutsAssumption, ExpiriesAssumption
  <2> QED BY <1>1, <1>2, <1>3, <1>4 DEF Init, TypeOK

\* Every step keeps the types.
LEMMA TypeStep == TypeOK /\ [Next]_vars => TypeOK'
<1> SUFFICES ASSUME TypeOK, [Next]_vars PROVE TypeOK'
  OBVIOUS
<1> USE DEF TypeOK, EndUpdate, mutex, history
<1>1. ASSUME NEW ip \in Patterns, NEW exp \in Expiries, AddToWhitelist(ip, exp)
      PROVE  TypeOK'
  <2>1. [ip |-> ip, exp |-> exp, copy |-> 1] \in Entry
    BY EntryFacts
  <2>2. target' \subseteq Items /\ whitelist' \subseteq Entry
    BY <1>1, <2>1, EntryFacts DEF AddToWhitelist, BeginUpdate
  <2> QED BY <1>1, <2>1, <2>2 DEF AddToWhitelist, BeginUpdate, NoVerdict
<1>2. ASSUME NEW ip \in Patterns, RemoveFromWhitelist(ip) PROVE TypeOK'
  <2>1. target' \subseteq Items
    BY <1>2, EntryFacts DEF RemoveFromWhitelist, BeginUpdate
  <2> QED BY <1>2, <2>1 DEF RemoveFromWhitelist, BeginUpdate, NoVerdict
<1>3. CASE CleanupExpired
  <2>1. target' \subseteq Items
    BY <1>3, EntryFacts DEF CleanupExpired, BeginUpdate
  <2> QED BY <1>3, <2>1 DEF CleanupExpired, BeginUpdate, Live, NoVerdict
<1>4. CASE OpenFile
  BY <1>4 DEF OpenFile, File, Written, NoVerdict
<1>5. CASE OpenFails
  BY <1>5 DEF OpenFails, AfterError, NoVerdict
<1>6. CASE WriteFails
  <2>1. file' \in File
    BY <1>6, PartialType DEF WriteFails
  <2> QED BY <1>6, <2>1 DEF WriteFails, AfterError, NoVerdict
<1>7. CASE WriteAll
  <2>1. op \in {"add", "remove", "cleanup"} /\ file' \in File
    BY <1>7 DEF WriteAll, File, Written
  <2>2. /\ granted' \subseteq Entry /\ acked' \subseteq Entry
        /\ lost' \subseteq Patterns /\ reloaded' \subseteq Patterns /\ strays' \subseteq Patterns
    BY <1>7, <2>1 DEF WriteAll, Supersede, Revoke
  <2> QED BY <1>7, <2>1, <2>2 DEF WriteAll, NoVerdict
<1>8. ASSUME NEW ip \in Patterns, AddToBlacklist(ip)
      PROVE  TypeOK'
  BY <1>8 DEF AddToBlacklist, NoVerdict
<1>9. ASSUME NEW ip \in Patterns, RemoveFromBlacklist(ip) PROVE TypeOK'
  BY <1>9 DEF RemoveFromBlacklist, NoVerdict
<1>10. ASSUME NEW a \in Addrs, IsAllowed(a) PROVE TypeOK'
  <2>1. verdict' \in [addr : Addrs \cup {"none"}, allowed : BOOLEAN]
    BY <1>10, Zenon DEF IsAllowed, Allowed
  <2> QED BY <1>10, <2>1 DEF IsAllowed
<1>11. CASE Crash
  <2>1. file' \in File /\ torn' \in BOOLEAN
    BY <1>11, PartialType DEF Crash
  <2> QED BY <1>11, <2>1 DEF Crash, NoVerdict
<1>12. CASE Start
  <2>1. whitelist' \subseteq Entry
    BY <1>12, EntryFacts DEF Start, File
  <2>2. IPs(file.items) \subseteq Patterns
    BY EntryFacts DEF File
  <2>3. IPs(acked) \subseteq Patterns
    BY EntryFacts
  <2> QED BY <1>12, <2>1, <2>2, <2>3 DEF Start, NoVerdict
<1>13. CASE StartFails
  BY <1>13 DEF StartFails, NoVerdict
<1>14. CASE Tick
  BY <1>14 DEF Tick, NoVerdict
<1>15. CASE UNCHANGED vars
  BY <1>15 DEF vars
<1> QED
  BY <1>1, <1>2, <1>3, <1>4, <1>5, <1>6, <1>7, <1>8, <1>9, <1>10, <1>11,
     <1>12, <1>13, <1>14, <1>15 DEF Next

\* The values never leave their types: the history, too, is made of entries.
THEOREM TypeCorrect == Spec => []TypeOK
BY TypeInit, TypeStep, PTL DEF Spec
-----------------------------------------------------------------------------
(***************************************************************************)
(* The inductive invariant.  Base is the list an update falls back on: what*)
(* the memory would hold if the update under way reported an error now.    *)
(***************************************************************************)
Base == AfterError

Control ==
  /\ up # "up" => op = "none" /\ whitelist = {}
  /\ op = "none" => pending = {} /\ opened = FALSE

PendingOK ==
  /\ op = "add" => /\ pending \subseteq whitelist
                   /\ \A e \in whitelist : e.ip \in IPs(pending) => e \in pending
                   /\ \E ip \in Valid, exp \in Expiries :
                        pending = {[ip |-> ip, exp |-> exp, copy |-> 1]}
  /\ op = "remove" => IPs(pending) \cap IPs(whitelist) = {}

TargetOK ==
  op # "none" => Listing(Live(whitelist)) \subseteq target /\ target \subseteq Listing(whitelist)

\* The file agrees with Base until the update opens it.
FileOK ==
  up = "up" /\ op \in {"none", "add"} /\ ~opened /\ ~stale =>
    /\ file.kind # "corrupt"
    /\ Listing(Live(Base)) \subseteq file.items
    /\ file.items \subseteq Listing(Base)

\* Grants that are not lost are in memory, for at least as long as they were granted
\* (so that no tick can separate the two), and in the file unless it is torn.
AckedOK ==
  /\ up = "up" => \A g \in Live(Kept) : \E e \in Base : e.ip = g.ip /\ g.exp <= e.exp
  /\ ~torn /\ ~opened => IPs(Live(Kept)) \subseteq IPs(file.items)

\* Nothing is in memory, nor in a file that is not torn, without a grant, but
\* for what a restart once read from a torn file.
GrantedOK ==
  /\ \A e \in Base : \/ e \in granted
                     \/ e.ip \in reloaded /\ e.ip \in IPs(granted) \cup strays
  /\ ~torn => IPs(file.items) \subseteq IPs(granted) \cup strays

IInv == /\ TypeOK
        /\ RepeatsFromFile
        /\ Control
        /\ PendingOK
        /\ TargetOK
        /\ FileOK
        /\ AckedOK
        /\ GrantedOK
\* A grant that is in force has its match in memory in force.
LEMMA AckedLive ==
  ASSUME TypeOK, NEW as \in SUBSET Entry, NEW es \in SUBSET Entry,
         \A g \in Live(as) : \E e \in es : e.ip = g.ip /\ g.exp <= e.exp
  PROVE  /\ \A g \in Live(as) : \E e \in Live(es) : e.ip = g.ip /\ g.exp <= e.exp
         /\ IPs(Live(as)) \subseteq IPs(Live(es))
<1>1. ASSUME NEW g \in Live(as), NEW e \in es, g.exp <= e.exp PROVE e \in Live(es)
  <2>1. g \in Entry /\ e \in Entry /\ ~(now > g.exp)
    BY DEF Live, Expired
  <2>2. now \in Int /\ g.exp \in Int /\ e.exp \in Int
    BY <2>1 DEF TypeOK, Entry, Never
  <2> QED BY <1>1, <2>1, <2>2 DEF Live, Expired
<1>2. \A g \in Live(as) : \E e \in Live(es) : e.ip = g.ip /\ g.exp <= e.exp
  BY <1>1
<1>3. ASSUME NEW g \in Live(as) PROVE g.ip \in IPs(Live(es))
  BY <1>2 DEF IPs
<1> QED BY <1>2, <1>3 DEF IPs

\* The entry added is new, so falling back on Base is undoing the add.
LEMMA AddToWhitelistStep ==
  ASSUME NEW ip \in Patterns, NEW exp \in Expiries, IInv, TypeOK', AddToWhitelist(ip, exp)
  PROVE  IInv'
<1>1. RepeatsFromFile'
  BY DEF IInv, RepeatsFromFile, AddToWhitelist, BeginUpdate, Fresh, history
<1>2. Control'
  BY DEF Control, AddToWhitelist, BeginUpdate, Idle
<1>3. PendingOK'
  BY DEF AddToWhitelist, BeginUpdate, Fresh, PendingOK, IPs
<1>4. TargetOK'
  BY DEF TargetOK, AddToWhitelist, BeginUpdate, history, Live, Expired, Listing
<1>5. Base' = Base
  BY DEF AddToWhitelist, BeginUpdate, Fresh, Idle, Base, AfterError
<1>6. FileOK'
  BY <1>5 DEF IInv, Control, FileOK, AddToWhitelist, BeginUpdate, Idle, history,
              Live, Expired, Listing
<1>7. AckedOK'
  BY <1>5 DEF IInv, AckedOK, Control, AddToWhitelist, BeginUpdate, Idle, history,
              Kept, Live, Expired, IPs
<1>8. GrantedOK'
  BY <1>5 DEF IInv, GrantedOK, AddToWhitelist, BeginUpdate, Idle, history, IPs
<1> QED BY <1>1, <1>2, <1>3, <1>4, <1>6, <1>7, <1>8 DEF IInv

\* The entries that leave are all those with the address.
LEMMA RemoveFromWhitelistStep ==
  ASSUME NEW ip \in Patterns, IInv, TypeOK', RemoveFromWhitelist(ip)
  PROVE  IInv'
<1>1. RepeatsFromFile'
  BY DEF IInv, RepeatsFromFile, RemoveFromWhitelist, BeginUpdate
<1>2. Control'
  BY DEF Control, RemoveFromWhitelist, BeginUpdate, Idle
<1>3. PendingOK'
  BY DEF RemoveFromWhitelist, BeginUpdate, PendingOK, IPs
<1>4. TargetOK'
  BY DEF TargetOK, RemoveFromWhitelist, BeginUpdate, Live, Expired, Listing
<1>5. FileOK'
  BY DEF FileOK, RemoveFromWhitelist, BeginUpdate
<1>6. AckedOK'
  BY DEF IInv, AckedOK, Base, AfterError, Control, RemoveFromWhitelist, BeginUpdate, Idle,
         Kept, Live, Expired, IPs
<1>7. GrantedOK'
  BY DEF IInv, GrantedOK, Base, AfterError, RemoveFromWhitelist, BeginUpdate, Idle, IPs
<1> QED BY <1>1, <1>2, <1>3, <1>4, <1>5, <1>6, <1>7 DEF IInv

\* Only entries that count for nothing any more leave the list.
LEMMA CleanupExpiredStep ==
  ASSUME IInv, TypeOK', CleanupExpired
  PROVE  IInv'
<1>1. RepeatsFromFile'
  BY DEF IInv, RepeatsFromFile, CleanupExpired, BeginUpdate, Live, history
<1>2. Control'
  BY DEF Control, CleanupExpired, BeginUpdate, Idle
<1>3. PendingOK'
  BY DEF CleanupExpired, BeginUpdate, PendingOK
<1>4. TargetOK'
  BY DEF TargetOK, CleanupExpired, BeginUpdate, history, Live, Expired, Listing
<1>5. FileOK'
  BY DEF FileOK, CleanupExpired, BeginUpdate
<1>6. AckedOK'
  <2>1. Base = whitelist /\ Base' = Live(whitelist) /\ Live(Kept)' = Live(Kept)
    BY DEF Base, AfterError, CleanupExpired, BeginUpdate, Idle, history, Kept, Live, Expired
  <2>2. \A g \in Live(Kept) : \E e \in Live(whitelist) : e.ip = g.ip /\ g.exp <= e.exp
    BY <2>1, AckedLive DEF IInv, TypeOK, AckedOK, Kept, CleanupExpired, Idle
  <2> QED BY <2>1, <2>2 DEF IInv, Control, AckedOK, CleanupExpired, BeginUpdate, Idle,
                            history, IPs
<1>7. GrantedOK'
  BY DEF IInv, GrantedOK, Base, AfterError, CleanupExpired, BeginUpdate, Idle, history, Live, IPs
<1> QED BY <1>1, <1>2, <1>3, <1>4, <1>5, <1>6, <1>7 DEF IInv

\* The file is empty from here on, and is not relied on while it is open.
LEMMA OpenFileStep ==
  ASSUME IInv, TypeOK', OpenFile
  PROVE  IInv'
<1>1. RepeatsFromFile'
  BY DEF IInv, RepeatsFromFile, OpenFile, history
<1>2. Control'
  BY DEF IInv, Control, OpenFile
<1>3. PendingOK'
  BY DEF IInv, PendingOK, OpenFile, IPs
<1>4. TargetOK'
  BY DEF IInv, TargetOK, OpenFile, history, Live, Expired, Listing
<1>5. FileOK'
  BY DEF FileOK, OpenFile
<1>6. AckedOK'
  BY DEF IInv, AckedOK, Base, AfterError, OpenFile, history, Kept, Live, Expired, IPs
<1>7. GrantedOK'
  BY DEF IInv, GrantedOK, Base, AfterError, OpenFile, Written, history, IPs
<1> QED BY <1>1, <1>2, <1>3, <1>4, <1>5, <1>6, <1>7 DEF IInv

\* The memory falls back on Base, with which the file, untouched, agrees.
LEMMA OpenFailsStep ==
  ASSUME IInv, TypeOK', OpenFails
  PROVE  IInv'
<1>1. RepeatsFromFile'
  BY DEF IInv, RepeatsFromFile, OpenFails, AfterError
<1>2. Control'
  BY DEF IInv, Control, OpenFails, AfterError, EndUpdate
<1>3. PendingOK'
  BY DEF PendingOK, OpenFails, EndUpdate
<1>4. TargetOK'
  BY DEF TargetOK, OpenFails, EndUpdate
<1>5. Base' = Base
  BY DEF OpenFails, EndUpdate, Base, AfterError
<1>6. FileOK'
  BY <1>5 DEF IInv, TypeOK, Control, FileOK, OpenFails, EndUpdate, Live, Expired, Listing
<1>7. AckedOK'
  BY <1>5 DEF IInv, Control, AckedOK, OpenFails, EndUpdate, Kept, Live, Expired, IPs
<1>8. GrantedOK'
  BY <1>5 DEF IInv, GrantedOK, OpenFails, EndUpdate, IPs
<1> QED BY <1>1, <1>2, <1>3, <1>4, <1>6, <1>7, <1>8 DEF IInv

\* The memory falls back on Base; the file is marked as not to be relied on.
LEMMA WriteFailsStep ==
  ASSUME IInv, TypeOK', WriteFails
  PROVE  IInv'
<1>1. RepeatsFromFile'
  BY DEF IInv, RepeatsFromFile, WriteFails, AfterError
<1>2. Control'
  BY DEF IInv, Control, WriteFails, AfterError, EndUpdate
<1>3. PendingOK'
  BY DEF PendingOK, WriteFails, EndUpdate
<1>4. TargetOK'
  BY DEF TargetOK, WriteFails, EndUpdate
<1>5. Base' = Base
  BY DEF WriteFails, EndUpdate, Base, AfterError
<1>6. FileOK'
  BY <1>5 DEF FileOK, WriteFails
<1>7. AckedOK'
  BY <1>5 DEF IInv, Control, AckedOK, WriteFails, EndUpdate, Kept, Live, Expired, IPs
<1>8. GrantedOK'
  BY <1>5 DEF IInv, GrantedOK, WriteFails, EndUpdate, IPs
<1> QED BY <1>1, <1>2, <1>3, <1>4, <1>6, <1>7, <1>8 DEF IInv

\* What a successful write leaves of the grants that are not lost: those there
\* were, and the new one in the place of any of the same text.
LEMMA KeptAfterWrite ==
  ASSUME IInv, WriteAll
  PROVE  Kept' = IF op = "add" THEN Supersede(Kept, pending) ELSE Kept
<1>1. op \in {"add", "remove", "cleanup"}
  BY DEF IInv, TypeOK, WriteAll
<1>2. CASE op = "add"
  <2>1. acked' = Supersede(acked, pending) /\ lost' = lost \ IPs(pending)
    BY <1>2 DEF WriteAll
  <2>2. \A g \in pending : g.ip \in IPs(pending)
    BY DEF IPs
  <2> QED BY <1>2, <2>1, <2>2 DEF Kept, Supersede, Revoke
<1>3. CASE op # "add"
  BY <1>1, <1>3 DEF WriteAll, Kept
<1> QED BY <1>2, <1>3

\* The file is whole again and holds the live part of the memory.
LEMMA WriteAllStep ==
  ASSUME IInv, TypeOK', WriteAll
  PROVE  IInv'
<1> USE DEF WriteAll, EndUpdate, Written
<1>0. op \in {"add", "remove", "cleanup"} /\ Base' = whitelist /\ now' = now
  BY DEF IInv, TypeOK, Base, AfterError
<1>1. RepeatsFromFile'
  <2>1. CASE op = "add"
    <3>1. \A e \in whitelist : e.ip \in IPs(pending) => e \in pending
      BY <2>1 DEF IInv, PendingOK
    <3>2. \A e, f \in pending : e = f
      BY <2>1 DEF IInv, PendingOK
    <3> QED BY <2>1, <3>1, <3>2 DEF IInv, RepeatsFromFile
  <2>2. CASE op = "remove"
    <3>1. \A e \in whitelist : e.ip \notin IPs(pending)
      BY <2>2 DEF IInv, PendingOK, IPs
    <3> QED BY <2>2, <3>1 DEF IInv, RepeatsFromFile
  <2>3. CASE op = "cleanup"
    BY <2>3 DEF IInv, RepeatsFromFile
  <2> QED BY <1>0, <2>1, <2>2, <2>3
<1>2. Control'
  BY DEF IInv, Control
<1>3. PendingOK' /\ TargetOK'
  BY DEF PendingOK, TargetOK
<1>4. FileOK'
  BY <1>0 DEF IInv, TargetOK, FileOK, Live, Expired, Listing
<1>5. \A g \in Live(Kept') : \E e \in whitelist : e.ip = g.ip /\ g.exp <= e.exp
  <2>1. \A g \in Live(Kept) : \E e \in whitelist : e.ip = g.ip /\ g.exp <= e.exp
    BY <1>0 DEF IInv, Control, AckedOK, Base, AfterError
  <2>2. CASE op = "add"
    <3>1. \A e \in pending : e \in whitelist /\ e.exp <= e.exp
      <4> TAKE e \in pending
      <4>1. e \in whitelist /\ e \in Entry
        BY <2>2 DEF IInv, TypeOK, PendingOK
      <4>2. e.exp \in Int
        BY <4>1, ExpiryFacts
      <4> QED BY <4>1, <4>2
    <3>2. Live(Kept') \subseteq Live(Kept) \cup pending
      BY <2>2, KeptAfterWrite DEF Live, Supersede, Revoke
    <3> QED BY <2>1, <3>1, <3>2
  <2>3. CASE op # "add"
    BY <2>1, <2>3, KeptAfterWrite
  <2> QED BY <2>2, <2>3
<1>6. AckedOK'
  <2>1. Live(Kept)' = Live(Kept')
    BY <1>0 DEF Live, Expired
  <2>2. Kept' \in SUBSET Entry
    BY DEF TypeOK, Kept
  <2>3. IPs(Live(Kept')) \subseteq IPs(Live(whitelist))
    BY <1>5, <2>2, AckedLive DEF IInv, TypeOK
  <2>4. IPs(Live(whitelist)) \subseteq IPs(target)
    BY <1>0, ListingFacts DEF IInv, TargetOK
  <2>5. file'.items = target
    BY DEF Written
  <2> QED BY <1>0, <1>5, <2>1, <2>3, <2>4, <2>5 DEF AckedOK, IPs
<1>7. \A e \in whitelist : \/ e \in granted'
                           \/ e.ip \in reloaded' /\ e.ip \in IPs(granted') \cup strays'
  <2>1. CASE op = "add"
    <3>1. \A e \in whitelist : e.ip \in IPs(pending) => e \in pending
      BY <2>1 DEF IInv, PendingOK
    <3>2. \A e \in whitelist \ pending :
            \/ e \in granted
            \/ e.ip \in reloaded /\ e.ip \in IPs(granted) \cup strays
      BY <2>1 DEF IInv, GrantedOK, Base, AfterError
    <3>3. granted' = Revoke(granted, pending) \cup pending
      BY <2>1 DEF Supersede
    <3>4. \A e \in whitelist \ pending : e.ip \notin IPs(pending)
      BY <3>1
    <3> QED BY <2>1, <3>2, <3>3, <3>4 DEF Revoke, IPs
  <2>2. CASE op = "remove"
    <3>1. \A e \in whitelist : e.ip \notin IPs(pending)
      BY <2>2 DEF IInv, PendingOK, IPs
    <3>2. \A e \in whitelist : \/ e \in granted
                               \/ e.ip \in reloaded /\ e.ip \in IPs(granted) \cup strays
      BY <2>2 DEF IInv, GrantedOK, Base, AfterError
    <3> QED BY <2>2, <3>1, <3>2 DEF Revoke, IPs
  <2>3. CASE op = "cleanup"
    BY <2>3 DEF IInv, GrantedOK, Base, AfterError
  <2> QED BY <1>0, <2>1, <2>2, <2>3
<1>8. GrantedOK'
  <2>1. IPs(file'.items) \subseteq IPs(whitelist)
    BY <1>0, ListingFacts DEF IInv, TargetOK
  <2>2. IPs(whitelist) \subseteq IPs(granted') \cup strays'
    BY <1>7 DEF IPs
  <2> QED BY <1>0, <1>7, <2>1, <2>2 DEF GrantedOK, IPs
<1> QED BY <1>1, <1>2, <1>3, <1>4, <1>6, <1>8 DEF IInv

\* Changes of the blacklist and questions touch nothing the invariant is about.
LEMMA BlacklistStep ==
  ASSUME IInv, TypeOK', UNCHANGED <<up, whitelist, file, mutex, now, history>>
  PROVE  IInv'
<1> USE DEF mutex, history
<1>1. RepeatsFromFile' /\ Control' /\ PendingOK'
  BY DEF IInv, RepeatsFromFile, Control, PendingOK, IPs
<1>2. TargetOK' /\ FileOK'
  BY DEF IInv, TargetOK, FileOK, Base, AfterError, Live, Expired, Listing
<1>3. AckedOK' /\ GrantedOK'
  BY DEF IInv, AckedOK, GrantedOK, Base, AfterError, Kept, Live, Expired, IPs
<1> QED BY <1>1, <1>2, <1>3 DEF IInv

\* A stop in the middle of a write leaves the file torn, or whole by chance.
LEMMA CrashStep ==
  ASSUME IInv, TypeOK', Crash
  PROVE  IInv'
<1> USE DEF Crash, EndUpdate
<1>1. RepeatsFromFile'
  BY DEF RepeatsFromFile
<1>2. Control'
  BY DEF Control
<1>3. PendingOK' /\ TargetOK' /\ FileOK'
  BY DEF PendingOK, TargetOK, FileOK
<1>4. ASSUME ~torn', opened PROVE file'.items = target
  <2>1. file' = Written(target)
    BY <1>4, Zenon
  <2> QED BY <2>1 DEF Written
<1>5. Kept' = Kept
  BY DEF Kept
<1>6. AckedOK'
  <2>1. ASSUME ~torn', opened PROVE IPs(Live(Kept)) \subseteq IPs(file'.items)
    <3>1. op # "none" /\ up = "up"
      BY <2>1 DEF IInv, Control
    <3>2. Base \in SUBSET Entry /\ Base \subseteq whitelist /\ Kept \in SUBSET Entry
      BY DEF IInv, TypeOK, Base, AfterError, Kept
    <3>3. IPs(Live(Kept)) \subseteq IPs(Live(Base))
      BY <3>1, <3>2, AckedLive DEF IInv, TypeOK, AckedOK
    <3>4. Live(Base) \subseteq Live(whitelist)
      BY <3>2 DEF Live
    <3>5. IPs(Live(Base)) \subseteq IPs(Live(whitelist))
      BY <3>4, ListingFacts
    <3>6. IPs(Live(whitelist)) \subseteq IPs(target)
      BY <3>1, ListingFacts DEF IInv, TargetOK
    <3> QED BY <1>4, <2>1, <3>3, <3>5, <3>6
  <2>2. ASSUME ~torn', ~opened PROVE IPs(Live(Kept)) \subseteq IPs(file'.items)
    BY <2>2 DEF IInv, TypeOK, AckedOK
  <2>3. Live(Kept)' = Live(Kept) /\ IPs(Live(Kept))' = IPs(Live(Kept)) /\ up' = "down"
    BY <1>5 DEF Live, Expired, IPs
  <2>4. IPs(file.items)' = IPs(file'.items)
    BY DEF IPs
  <2> QED BY <2>1, <2>2, <2>3, <2>4 DEF AckedOK
<1>7. GrantedOK'
  <2>0. IPs(granted) \subseteq IPs(granted') /\ strays' = strays
    BY ListingFacts
  <2>1. ASSUME ~torn', opened PROVE IPs(file'.items) \subseteq IPs(granted') \cup strays
    <3>1. op # "none"
      BY <2>1 DEF IInv, Control
    <3>2. IPs(target) \subseteq IPs(whitelist)
      BY <3>1, ListingFacts DEF IInv, TargetOK
    <3>3. \A e \in whitelist : e \in Base \/ e \in granted'
      BY DEF Base, AfterError
    <3>4. IPs(whitelist) \subseteq IPs(granted') \cup strays
      BY <2>0, <3>3 DEF IInv, GrantedOK, IPs
    <3> QED BY <1>4, <2>1, <3>2, <3>4
  <2>2. ASSUME ~torn', ~opened PROVE IPs(file'.items) \subseteq IPs(granted') \cup strays
    BY <2>0, <2>2 DEF IInv, TypeOK, GrantedOK
  <2>3. Base' = {} /\ IPs(file.items)' = IPs(file'.items) /\ IPs(granted)' = IPs(granted')
    BY DEF Base, AfterError, IPs
  <2> QED BY <2>0, <2>1, <2>2, <2>3 DEF GrantedOK
<1> QED BY <1>1, <1>2, <1>3, <1>6, <1>7 DEF IInv

\* The memory is the file, item for item and without expiries.
LEMMA StartStep ==
  ASSUME IInv, TypeOK', Start
  PROVE  IInv'
<1> USE DEF Start
<1>0. /\ op = "none" /\ op' = "none" /\ opened = FALSE /\ opened' = FALSE /\ now' = now
      /\ pending' = {} /\ file' = file /\ Base' = whitelist'
  BY DEF IInv, Control, mutex, Base, AfterError
<1>1. /\ \A i \in file.items : Permanent(i) \in whitelist'
      /\ \A e \in whitelist' : \E i \in file.items : e = Permanent(i)
      /\ \A i : Permanent(i).ip = i.ip /\ Permanent(i).exp = Never /\ Permanent(i).copy = i.copy
  BY DEF Permanent
<1>2. /\ \A e \in whitelist' : e.exp = Never /\ e.ip \in IPs(file.items)
      /\ Live(whitelist') = whitelist'
  <2>1. ~(now > Never)
    BY ClockAssumption DEF IInv, TypeOK, Never
  <2>2. \A e \in whitelist' : e.exp = Never /\ e.ip \in IPs(file.items)
    BY <1>1 DEF IPs
  <2> QED BY <2>1, <2>2 DEF Live, Expired
<1>3. Listing(whitelist') = file.items
  <2>1. \A i \in file.items : i = [ip |-> i.ip, copy |-> i.copy]
    BY FieldFacts DEF IInv, TypeOK, File
  <2> QED BY <1>1, <2>1 DEF Listing
<1>4. RepeatsFromFile'
  BY <1>2 DEF RepeatsFromFile
<1>5. Control' /\ PendingOK' /\ TargetOK'
  BY <1>0 DEF Control, PendingOK, TargetOK
<1>6. FileOK'
  <2>1. Listing(Live(Base))' = file.items /\ Listing(Base)' = file.items
    BY <1>0, <1>2, <1>3 DEF Live, Expired, Listing
  <2> QED BY <1>0, <2>1 DEF FileOK
<1>7. IPs(Live(Kept')) \subseteq IPs(file.items)
  <2>1. CASE torn
    BY <2>1 DEF IInv, TypeOK, Kept, Live, IPs
  <2>2. CASE ~torn
    <3>1. Kept' = Kept
      BY <2>2 DEF Kept
    <3> QED BY <1>0, <2>2, <3>1 DEF IInv, AckedOK
  <2> QED BY <2>1, <2>2
<1>8. AckedOK'
  <2>1. Live(Kept)' = Live(Kept')
    BY <1>0 DEF Live, Expired
  <2>2. \A g \in Live(Kept') : g \in Entry
    BY DEF TypeOK, Kept, Live
  <2>3. \A g \in Live(Kept') : g.exp <= Never
    BY <2>2, ExpiryFacts
  <2>4. \A g \in Live(Kept') : \E i \in file.items : i.ip = g.ip
    BY <1>7 DEF IPs
  <2>5. \A g \in Live(Kept') : \E e \in whitelist' : e.ip = g.ip /\ g.exp <= e.exp
    BY <1>1, <2>3, <2>4
  <2> QED BY <1>0, <1>7, <2>1, <2>5 DEF AckedOK, IPs
<1>9. IPs(file.items) \subseteq IPs(granted') \cup strays'
  <2>1. CASE torn
    BY <2>1
  <2>2. CASE ~torn
    BY <2>2 DEF IInv, TypeOK, GrantedOK
  <2> QED BY <2>1, <2>2
<1>10. GrantedOK'
  <2>1. IPs(file.items)' = IPs(file.items) /\ IPs(granted)' = IPs(granted')
    BY <1>0 DEF IPs
  <2> QED BY <1>0, <1>2, <1>9, <2>1 DEF GrantedOK
<1> QED BY <1>4, <1>5, <1>6, <1>8, <1>10 DEF IInv

\* A start that fails leaves everything but the process as it was.
LEMMA StartFailsStep ==
  ASSUME IInv, TypeOK', StartFails
  PROVE  IInv'
<1> USE DEF StartFails, mutex, history
<1>1. RepeatsFromFile' /\ Control' /\ PendingOK'
  BY DEF IInv, RepeatsFromFile, Control, PendingOK, IPs
<1>2. TargetOK' /\ FileOK'
  BY DEF IInv, Control, TargetOK, FileOK
<1>3. AckedOK' /\ GrantedOK'
  BY DEF IInv, AckedOK, GrantedOK, Base, AfterError, Kept, Live, Expired, IPs
<1> QED BY <1>1, <1>2, <1>3 DEF IInv


\* Time only takes entries out of force, in memory and among the grants alike.
LEMMA TickStep ==
  ASSUME IInv, TypeOK', Tick
  PROVE  IInv'
<1> USE DEF Tick, mutex, history
<1>1. /\ Live(whitelist)' \subseteq Live(whitelist)
      /\ Live(Base)' \subseteq Live(Base)
      /\ Live(Kept)' \subseteq Live(Kept)
  <2>1. ASSUME NEW es \in SUBSET Entry
        PROVE  \A e \in es : e.exp \in Int
    BY <2>1, ExpiryFacts
  <2>2. whitelist \in SUBSET Entry /\ Base \in SUBSET Entry /\ Kept \in SUBSET Entry
    BY DEF IInv, TypeOK, Base, AfterError, Kept
  <2>3. whitelist' = whitelist /\ Base' = Base /\ Kept' = Kept
    BY DEF Base, AfterError, Kept
  <2>4. now \in Int
    BY DEF IInv, TypeOK
  <2> QED BY <2>1, <2>2, <2>3, <2>4 DEF Live, Expired
<1>2. RepeatsFromFile' /\ Control' /\ PendingOK'
  BY DEF IInv, RepeatsFromFile, Control, PendingOK, IPs
<1>3. TargetOK'
  BY <1>1 DEF IInv, TargetOK, Listing
<1>4. FileOK'
  BY <1>1 DEF IInv, FileOK, Base, AfterError, Listing
<1>5. AckedOK'
  BY <1>1 DEF IInv, AckedOK, Base, AfterError, IPs
<1>6. GrantedOK'
  BY DEF IInv, GrantedOK, Base, AfterError, IPs
<1> QED BY <1>2, <1>3, <1>4, <1>5, <1>6 DEF IInv

LEMMA IInvInit == Init => IInv
<1> SUFFICES ASSUME Init PROVE IInv
  OBVIOUS
<1>1. TypeOK
  BY TypeInit
<1>2. RepeatsFromFile /\ Control /\ PendingOK /\ TargetOK /\ FileOK
  BY DEF Init, RepeatsFromFile, Control, PendingOK, TargetOK, FileOK
<1>3. \A i \in file.items : Permanent(i).ip = i.ip
  BY DEF Permanent
<1>4. IPs(granted) = IPs(file.items)
  BY <1>3 DEF Init, IPs
<1>5. AckedOK
  BY <1>4 DEF Init, AckedOK, Kept, Live, IPs
<1>6. GrantedOK
  BY <1>4 DEF Init, GrantedOK, Base, AfterError
<1> QED BY <1>1, <1>2, <1>5, <1>6 DEF IInv

LEMMA IInvStep == IInv /\ [Next]_vars => IInv'
<1> SUFFICES ASSUME IInv, [Next]_vars PROVE IInv'
  OBVIOUS
<1>0. TypeOK'
  BY TypeStep DEF IInv
<1>1. ASSUME NEW ip \in Patterns, NEW exp \in Expiries, AddToWhitelist(ip, exp)
      PROVE  IInv'
  BY <1>0, <1>1, AddToWhitelistStep
<1>2. ASSUME NEW ip \in Patterns, RemoveFromWhitelist(ip) PROVE IInv'
  BY <1>0, <1>2, RemoveFromWhitelistStep
<1>3. CASE CleanupExpired
  BY <1>0, <1>3, CleanupExpiredStep
<1>4. CASE OpenFile
  BY <1>0, <1>4, OpenFileStep
<1>5. CASE OpenFails
  BY <1>0, <1>5, OpenFailsStep
<1>6. CASE WriteFails
  BY <1>0, <1>6, WriteFailsStep
<1>7. CASE WriteAll
  BY <1>0, <1>7, WriteAllStep
<1>8. ASSUME NEW ip \in Patterns, AddToBlacklist(ip)
      PROVE  IInv'
  BY <1>0, <1>8, BlacklistStep DEF AddToBlacklist, history
<1>9. ASSUME NEW ip \in Patterns, RemoveFromBlacklist(ip) PROVE IInv'
  BY <1>0, <1>9, BlacklistStep DEF RemoveFromBlacklist, history
<1>10. ASSUME NEW a \in Addrs, IsAllowed(a) PROVE IInv'
  BY <1>0, <1>10, BlacklistStep DEF IsAllowed, history
<1>11. CASE Crash
  BY <1>0, <1>11, CrashStep
<1>12. CASE Start
  BY <1>0, <1>12, StartStep
<1>13. CASE StartFails
  BY <1>0, <1>13, StartFailsStep
<1>14. CASE Tick
  BY <1>0, <1>14, TickStep
<1>15. CASE UNCHANGED vars
  BY <1>0, <1>15, BlacklistStep DEF vars, history
<1> QED
  BY <1>1, <1>2, <1>3, <1>4, <1>5, <1>6, <1>7, <1>8, <1>9, <1>10, <1>11,
     <1>12, <1>13, <1>14, <1>15 DEF Next

\* The inductive invariant holds in every behaviour.
THEOREM Inductive == Spec => []IInv
BY IInvInit, IInvStep, PTL DEF Spec
-----------------------------------------------------------------------------
\* A text is in the whitelist twice only if the file listed it twice, so that
\* the rollback of a failed add takes off exactly the entry it is about.
THEOREM RepeatsExplained == Spec => []RepeatsFromFile
BY Inductive, PTL DEF IInv

\* After any successful update the file holds the live part of the memory and
\* nothing that is not in memory, whatever failed before it.
THEOREM FileAgrees == Spec => []FileMatchesMemory
<1>1. IInv => FileMatchesMemory
  BY DEF IInv, Control, FileOK, FileMatchesMemory, Idle, Base, AfterError
<1> QED BY <1>1, Inductive, PTL

\* An acknowledged add stays in force until its expiry or a request to remove
\* it, across failed updates, crashes and restarts, unless a restart reads a
\* file that was cut off in its last write and no longer lists it.
THEOREM GrantsLast == Spec => []DurableGrant
<1>1. IInv => DurableGrant
  <2> SUFFICES ASSUME IInv, Idle
               PROVE  \A g \in Live(acked) : g.ip \in IPs(Live(whitelist)) \cup lost
    BY DEF DurableGrant
  <2>1. \A g \in Live(Kept) : \E e \in whitelist : e.ip = g.ip /\ g.exp <= e.exp
    BY DEF IInv, AckedOK, Idle, Base, AfterError
  <2>2. IPs(Live(Kept)) \subseteq IPs(Live(whitelist))
    BY <2>1, AckedLive DEF IInv, TypeOK, Kept
  <2>3. \A g \in Live(acked) : g \in Live(Kept) \/ g.ip \in lost
    BY DEF Live, Kept
  <2> QED BY <2>2, <2>3 DEF IPs
<1> QED BY <1>1, Inductive, PTL

\* Nobody is let in without a grant that was given and not revoked, but by the
\* texts that a restart has read from a file cut off in its last write.
THEOREM OnlyGranted == Spec => []AllowOnlyGranted
<1>1. IInv => AllowOnlyGranted
  <2> SUFFICES ASSUME IInv, Idle, NEW a \in Addrs, Allowed(a)
               PROVE  \/ \E g \in granted :
                           Matches(a, g.ip) /\ (~Expired(g) \/ g.ip \in reloaded)
                      \/ \E p \in strays : Matches(a, p)
    BY DEF AllowOnlyGranted
  <2>1. PICK e \in Live(whitelist) : Matches(a, e.ip)
    BY DEF Allowed, Listed
  <2>2. e \in whitelist /\ ~Expired(e)
    BY DEF Live
  <2>3. e \in granted \/ (e.ip \in reloaded /\ e.ip \in IPs(granted) \cup strays)
    BY <2>2 DEF IInv, GrantedOK, Idle, Base, AfterError
  <2> QED BY <2>1, <2>2, <2>3 DEF IPs
<1> QED BY <1>1, Inductive, PTL
-----------------------------------------------------------------------------
(***************************************************************************)
(* The refinement of AccessList.  The list of the abstract specification   *)
(* is Base: an add counts from its successful write, a removal at once.    *)
(***************************************************************************)
LEMMA PromiseInit == Init => Promise!Init
<1> SUFFICES ASSUME Init PROVE Promise!Init
  OBVIOUS
<1>1. file.items \in SUBSET Items
  BY TypeInit DEF TypeOK, File
<1>2. Kept \in {{Promise!Permanent(i) : i \in s} : s \in SUBSET Items}
  BY <1>1 DEF Init, Kept, Permanent, Promise!Permanent, Never, Promise!Never
<1> QED BY <1>2 DEF Init, Promise!Init, NoVerdict, Promise!NoAnswer

\* Steps inside an update: nothing that a caller can observe changes.
LEMMA InternalSteps ==
  ASSUME Base' = Base, up' = up, up = "up", blacklist' = blacklist, Kept' = Kept,
         now' = now, verdict' = NoVerdict
  PROVE  Promise!Internal
BY DEF Promise!Internal, Base, AfterError, NoVerdict, Promise!NoAnswer

\* The end of a successful add is the abstract grant.
LEMMA GrantStep ==
  ASSUME IInv, WriteAll, op = "add"
  PROVE  \E ip \in Patterns, exp \in Expiries : Promise!Grant(ip, exp)
<1>1. PICK ip \in Valid, exp \in Expiries : pending = {[ip |-> ip, exp |-> exp, copy |-> 1]}
  BY DEF IInv, PendingOK
<1>2. [ip |-> ip, exp |-> exp, copy |-> 1] \in whitelist
  BY <1>1 DEF IInv, PendingOK
<1>3. ip \notin Promise!IPs(whitelist \ pending)
  <2>1. \A e \in whitelist : e.ip \in IPs(pending) => e \in pending
    BY DEF IInv, PendingOK
  <2>2. IPs(pending) = {ip}
    BY <1>1 DEF IPs
  <2> QED BY <2>1, <2>2 DEF Promise!IPs
<1>4. (whitelist \ pending) \cup {[ip |-> ip, exp |-> exp, copy |-> 1]} = whitelist
  BY <1>1, <1>2
<1>5. up = "up"
  BY DEF IInv, Control
<1>6. Kept' = {e \in Kept : e.ip # ip} \cup {[ip |-> ip, exp |-> exp, copy |-> 1]}
  <2>1. IPs(pending) = {ip}
    BY <1>1 DEF IPs
  <2> QED BY <1>1, <2>1, KeptAfterWrite DEF Supersede, Revoke
<1>7. Promise!Grant(ip, exp)
  BY <1>1, <1>3, <1>4, <1>5, <1>6
     DEF WriteAll, EndUpdate, Promise!Grant, NoVerdict, Promise!NoAnswer
<1> QED BY <1>1, <1>7, PatternAssumption

\* The two modules mean the same by an entry in force.
LEMMA LiveSame ==
  ASSUME IInv
  PROVE  /\ Live(whitelist) = Promise!Live(whitelist)
         /\ Live(Kept) = Promise!Live(Kept)
<1>1. \A e \in Entry : Expired(e) <=> ~(now <= e.exp)
  <2>1. now \in Int
    BY DEF IInv, TypeOK
  <2> QED BY <2>1, ExpiryFacts DEF Expired
<1>2. whitelist \subseteq Entry /\ Kept \subseteq Entry
  BY DEF IInv, TypeOK, Kept
<1> QED BY <1>1, <1>2 DEF Live, Promise!Live

\* Every step of the manager is a step of the promise, or none.
LEMMA PromiseStep == IInv /\ TypeOK' /\ [Next]_vars => [Promise!Next]_(Promise!vars)
<1> SUFFICES ASSUME IInv, TypeOK', [Next]_vars PROVE [Promise!Next]_(Promise!vars)
  OBVIOUS
<1> USE DEF Promise!Next
<1>1. ASSUME NEW ip \in Patterns, NEW exp \in Expiries, AddToWhitelist(ip, exp)
      PROVE  Promise!Internal
  BY <1>1, InternalSteps
     DEF AddToWhitelist, BeginUpdate, Fresh, Idle, history, Base, AfterError, Kept
<1>2. ASSUME NEW ip \in Patterns, RemoveFromWhitelist(ip) PROVE Promise!Revoke(ip)
  <2>1. ip \in Promise!IPs(whitelist)
    BY <1>2 DEF RemoveFromWhitelist, Fresh, Promise!IPs
  <2>2. Kept' = {e \in Kept : e.ip # ip}
    BY <1>2 DEF RemoveFromWhitelist, Kept
  <2> QED BY <1>2, <2>1, <2>2 DEF RemoveFromWhitelist, BeginUpdate, Idle, Promise!Revoke,
                                  NoVerdict, Promise!NoAnswer
<1>3. CASE CleanupExpired
  <2>1. Live(whitelist) = Promise!Live(whitelist)
    BY LiveSame
  <2>2. Promise!Purge
    BY <1>3, <2>1 DEF CleanupExpired, BeginUpdate, Idle, history, Kept, Promise!Purge,
                      NoVerdict, Promise!NoAnswer
  <2> QED BY <2>2
<1>4. CASE OpenFile
  BY <1>4, InternalSteps DEF OpenFile, IInv, Control, history, Base, AfterError, Kept
<1>5. CASE OpenFails
  BY <1>5, InternalSteps DEF OpenFails, EndUpdate, IInv, Control, Base, AfterError, Kept
<1>6. CASE WriteFails
  BY <1>6, InternalSteps DEF WriteFails, EndUpdate, IInv, Control, Base, AfterError, Kept
<1>7. CASE WriteAll
  <2>1. CASE op = "add"
    BY <1>7, <2>1, GrantStep
  <2>2. CASE op # "add"
    BY <1>7, <2>2, InternalSteps, KeptAfterWrite
       DEF WriteAll, EndUpdate, IInv, TypeOK, Control, Base, AfterError
  <2> QED BY <2>1, <2>2
<1>8. ASSUME NEW ip \in Patterns, AddToBlacklist(ip)
      PROVE  Promise!Deny(ip)
  BY <1>8 DEF AddToBlacklist, Idle, mutex, history, Kept, Promise!Deny, NoVerdict, Promise!NoAnswer
<1>9. ASSUME NEW ip \in Patterns, RemoveFromBlacklist(ip) PROVE Promise!Deny(ip)
  BY <1>9 DEF RemoveFromBlacklist, Idle, mutex, history, Kept, Promise!Deny, NoVerdict, Promise!NoAnswer
<1>10. ASSUME NEW a \in Addrs, IsAllowed(a) PROVE Promise!Ask(a)
  <2>1. Live(whitelist) = Promise!Live(whitelist)
    BY LiveSame
  <2>2. Allowed(a) <=> /\ \A p \in blacklist : a \notin Covers[p]
                       /\ \E e \in Promise!Live(whitelist) : a \in Covers[e.ip]
    BY <2>1 DEF Allowed, Blocked, Listed, Matches
  <2> QED BY <1>10, <2>2 DEF IsAllowed, Idle, mutex, history, Kept, Promise!Ask, Allowed
<1>11. CASE Crash
  BY <1>11 DEF Crash, EndUpdate, Kept, Promise!Stop, TypeOK, NoVerdict, Promise!NoAnswer
<1>12. CASE Start
  <2>1. op = "none" /\ op' = "none" /\ ~opened /\ file.items \in SUBSET Items
    BY <1>12 DEF Start, IInv, TypeOK, File, Control, mutex
  <2>2. whitelist' = {Promise!Permanent(i) : i \in file.items}
    BY <1>12 DEF Start, Permanent, Promise!Permanent, Never, Promise!Never
  <2>3. whitelist' \in {{Promise!Permanent(i) : i \in s} : s \in SUBSET Items}
    BY <2>1, <2>2
  <2>4. IPs(file.items) \subseteq Promise!IPs(whitelist')
    <3>1. \A i \in file.items : Promise!Permanent(i) \in whitelist'
      BY <2>2
    <3>2. \A i \in file.items : Promise!Permanent(i).ip = i.ip
      BY DEF Promise!Permanent
    <3> QED BY <3>1, <3>2 DEF IPs, Promise!IPs
  <2>5. ASSUME ~torn
        PROVE  /\ Kept' = Kept
               /\ Promise!IPs(Promise!Live(Kept)) \subseteq Promise!IPs(whitelist')
    <3>1. Live(Kept) = Promise!Live(Kept)
      BY LiveSame
    <3>2. IPs(Live(Kept)) \subseteq IPs(file.items)
      BY <2>1, <2>5 DEF IInv, AckedOK
    <3>3. Kept' = Kept
      BY <1>12, <2>5 DEF Start, Kept
    <3> QED BY <2>4, <3>1, <3>2, <3>3 DEF IPs, Promise!IPs
  <2>6. Kept' \subseteq Kept
    BY <1>12 DEF Start, Kept
  <2>7. UNCHANGED <<blacklist, now>> /\ up = "down" /\ up' = "up" /\ verdict' = NoVerdict
    BY <1>12 DEF Start
  <2>8. torn' = FALSE
    BY <1>12 DEF Start
  <2>9. Promise!Boot
    BY <2>1, <2>3, <2>5, <2>6, <2>7, <2>8 DEF Promise!Boot, NoVerdict, Promise!NoAnswer
  <2> QED BY <2>9
<1>13. CASE StartFails
  BY <1>13 DEF StartFails, mutex, history, IInv, Control, Kept, Promise!BootFails,
               NoVerdict, Promise!NoAnswer
<1>14. CASE Tick
  BY <1>14 DEF Tick, mutex, history, Kept, Promise!Tick, NoVerdict, Promise!NoAnswer
<1>15. CASE UNCHANGED vars
  BY <1>15 DEF vars, mutex, history, Kept, Promise!vars
<1> QED
  BY <1>1, <1>2, <1>3, <1>4, <1>5, <1>6, <1>7, <1>8, <1>9, <1>10, <1>11,
     <1>12, <1>13, <1>14, <1>15 DEF Next

\* The manager implements the access list its callers are promised.
THEOREM Refinement == Spec => KeepsPromise
BY PromiseInit, PromiseStep, Inductive, TypeCorrect, PTL
   DEF Spec, KeepsPromise, Promise!Spec
=============================================================================
