------------------------- MODULE DeviceSessionsProofs ------------------------
(***************************************************************************)
(* The device list and the eviction journal for every number of devices,   *)
(* requests, workers and faults.                                           *)
(***************************************************************************)
EXTENDS DeviceSessions, FiniteSetTheorems, TLAPS

(* A request that registers or evicts has committed its pair, and the family it  *)
(* writes to the device set was opened.                                          *)
RequestOK(p) ==
    /\ req[p].pc \in {"register", "evict"} => p \in committed
    /\ req[p].pc \in {"register", "touch"} =>
            /\ req[p].fam \in Families /\ session[req[p].fam] # "none"
            /\ req[p].at > 0
    /\ req[p].pc = "evict" => req[p].evicts \in Families

RequestsOK == \A p \in Requests : RequestOK(p)

(* Only opened families are listed, and only opened families were displaced. *)
ListedIsOpen == \A f \in Families : score[f] > 0 => session[f] # "none"
DisplacedIsOpen == \A e \in displaced : session[e[2]] # "none"

(* What a worker has resolved is over: the session, or an uncommitted request. *)
Resolved(e) ==
    \/ session[e[2]] # "live"
    \/ e[1] \notin committed /\ req[e[1]].pc = "done"

AckIsResolved ==
    \A w \in Workers : \A e \in ack[w] : e \in displaced /\ Resolved(e)

(* An entry whose session lives stays in the journal as long as its request has  *)
(* committed or may still commit.                                                *)
JournalKept ==
    /\ journal \subseteq displaced
    /\ \A e \in displaced : e \in journal \/ Resolved(e)

Inv ==
    /\ TypeOK
    /\ RequestsOK
    /\ ListedIsOpen
    /\ DisplacedIsOpen
    /\ AckIsResolved
    /\ JournalKept
    /\ NoCollateralEviction
    /\ ListedWithinLimit

-----------------------------------------------------------------------------
(* The devices listed at the start are open and within the limit. *)
LEMMA InitInv == Init => Inv
<1> SUFFICES ASSUME Init PROVE Inv
    OBVIOUS
<1>1. TypeOK
    <2>1. score \in [Families -> Times] /\ clock \in Times
        BY DeviceAssumption DEF Init, Times
    <2>2. req \in [Requests -> Request]
        BY DEF Init, NewRequest, Request, Times
    <2>3. gen \in [Families -> Nat] /\ faults \in 0..MaxFaults
        BY DeviceAssumption DEF Init
    <2>4. /\ session \in [Families -> Session]
          /\ hash \in [Families -> {"none", "dated", "rebuilt"}]
        BY DEF Init, Session
    <2>5. /\ committed \subseteq Requests /\ evictedBy \subseteq Requests
          /\ journal \subseteq Entries /\ displaced \subseteq Entries
          /\ ack \in [Workers -> SUBSET Entries]
        BY DEF Init
    <2> QED BY <2>1, <2>2, <2>3, <2>4, <2>5 DEF TypeOK
<1>2. RequestsOK
    BY DEF Init, RequestsOK, RequestOK, NewRequest
<1>3. ListedIsOpen
    BY DEF Init, ListedIsOpen
<1>4. DisplacedIsOpen /\ AckIsResolved /\ JournalKept /\ NoCollateralEviction
    BY DEF Init, DisplacedIsOpen, AckIsResolved, JournalKept, NoCollateralEviction
<1>5. ListedWithinLimit
    <2>1. {f \in Families : Listed(f)} \subseteq Opened
        BY DEF Init, Listed
    <2>2. IsFiniteSet(Opened)
        BY DeviceAssumption, FS_Subset
    <2>3. /\ Cardinality({f \in Families : Listed(f)}) <= Cardinality(Opened)
          /\ Cardinality(Opened) \in Nat
          /\ Cardinality({f \in Families : Listed(f)}) \in Nat
        BY <2>1, <2>2, FS_Subset, FS_CardinalityType
    <2> QED BY <2>3, DeviceAssumption DEF ListedWithinLimit
<1> QED BY <1>1, <1>2, <1>3, <1>4, <1>5 DEF Inv

-----------------------------------------------------------------------------
(* Inv is preserved by each kind of step. *)

(* The listed families never become more numerous than Limit by losing members. *)
LEMMA FewerListed ==
    ASSUME ListedWithinLimit, \A f \in Families : score'[f] > 0 => score[f] > 0
    PROVE  ListedWithinLimit'
<1>1. {f \in Families : Listed(f)}' \subseteq {f \in Families : Listed(f)}
    BY DEF Listed
<1>2. IsFiniteSet({f \in Families : Listed(f)})
    BY DeviceAssumption, FS_Subset
<1>3. /\ Cardinality({f \in Families : Listed(f)}') <= Cardinality({f \in Families : Listed(f)})
      /\ Cardinality({f \in Families : Listed(f)}') \in Nat
      /\ Cardinality({f \in Families : Listed(f)}) \in Nat
    BY <1>1, <1>2, FS_Subset, FS_CardinalityType
<1> QED BY <1>3, DeviceAssumption DEF ListedWithinLimit

(* A step on sessions and requests that leaves the device records alone.  An    *)
(* open session never becomes live again, and a finished request commits        *)
(* nothing.                                                                     *)
LEMMA SessionStep ==
    ASSUME Inv, TypeOK', UNCHANGED records,
           \A f \in Families : session[f] # "none" =>
                session'[f] # "none" /\ (session'[f] = "live" => session[f] = "live"),
           \A q \in Requests : req[q].pc = "done" =>
                req'[q].pc = "done" /\ (q \in committed' => q \in committed),
           RequestsOK', NoCollateralEviction',
           \A w \in Workers : \A e \in ack'[w] :
                e \in ack[w] \/ (e \in journal /\ Resolved(e)')
    PROVE  Inv'
<1>1. score' = score /\ journal' = journal /\ displaced' = displaced
    BY DEF records
<1>2. \A e \in displaced : e[1] \in Requests /\ e[2] \in Families
    BY DEF Inv, TypeOK, Entries
<1>3. ListedIsOpen' /\ DisplacedIsOpen'
    BY <1>1, <1>2 DEF Inv, ListedIsOpen, DisplacedIsOpen
<1>4. ASSUME NEW e \in displaced, Resolved(e) PROVE Resolved(e)'
    <2>1. session[e[2]] # "none" /\ e[1] \in Requests /\ e[2] \in Families
        BY <1>2 DEF Inv, DisplacedIsOpen
    <2> QED BY <2>1, <1>4 DEF Resolved
<1>5. JournalKept'
    BY <1>1, <1>4 DEF Inv, JournalKept
<1>6. AckIsResolved'
    BY <1>1, <1>4 DEF Inv, AckIsResolved, JournalKept
<1>7. ListedWithinLimit'
    BY <1>1, FewerListed DEF Inv
<1> QED BY <1>3, <1>5, <1>6, <1>7 DEF Inv

(* A step on the device records: only opened families are listed or displaced,   *)
(* and what is displaced is journalled with it.                                  *)
LEMMA RecordStep ==
    ASSUME Inv, TypeOK', UNCHANGED <<session, committed, ack, evictedBy>>,
           NEW D \in SUBSET Entries, journal' = journal \cup D, displaced' = displaced \cup D,
           \A e \in D : session[e[2]] # "none",
           \A f \in Families : score'[f] > 0 => session[f] # "none",
           \A q \in Requests : req[q].pc = "done" => req'[q].pc = "done",
           RequestsOK', ListedWithinLimit'
    PROVE  Inv'
<1>1. \A e \in displaced : e[1] \in Requests
    BY DEF Inv, TypeOK, Entries
<1>2. ListedIsOpen' /\ DisplacedIsOpen' /\ NoCollateralEviction'
    BY DEF Inv, ListedIsOpen, DisplacedIsOpen, NoCollateralEviction
<1>3. \A e \in displaced : Resolved(e) => Resolved(e)'
    BY <1>1 DEF Resolved
<1>4. JournalKept'
    BY <1>3 DEF Inv, JournalKept
<1>5. AckIsResolved'
    BY <1>3 DEF Inv, AckIsResolved
<1> QED BY <1>2, <1>4, <1>5 DEF Inv

-----------------------------------------------------------------------------
(* The registering scripts. *)

(* The set the scripts check against the limit has at most one member too many. *)
LEMMA SweptSize ==
    ASSUME ListedWithinLimit, NEW f \in Families
    PROVE  /\ IsFiniteSet(Swept(f)) /\ Cardinality(Swept(f)) \in Nat
           /\ Cardinality(Swept(f)) <= Limit + 1
<1> DEFINE L == {h \in Families : Listed(h)}
<1>1. IsFiniteSet(L) /\ Cardinality(L) \in Nat
    BY DeviceAssumption, FS_Subset, FS_CardinalityType
<1>2. /\ IsFiniteSet(L \cup {f}) /\ Cardinality(L \cup {f}) \in Nat
      /\ Cardinality(L \cup {f}) <= Cardinality(L) + 1
    <2> HIDE DEF L
    <2>1. /\ IsFiniteSet(L \cup {f})
          /\ Cardinality(L \cup {f}) = Cardinality(L)
                \/ Cardinality(L \cup {f}) = Cardinality(L) + 1
        BY <1>1, FS_AddElement
    <2> QED BY <2>1, <1>1
<1>3. Swept(f) \subseteq L \cup {f}
    BY DEF Swept
<1>4. Cardinality(L) <= Limit
    BY DEF ListedWithinLimit
<1> HIDE DEF L
<1>5. /\ IsFiniteSet(Swept(f)) /\ Cardinality(Swept(f)) <= Cardinality(L \cup {f})
    BY <1>2, <1>3, FS_Subset
<1>6. Cardinality(Swept(f)) \in Nat
    BY <1>5, FS_CardinalityType
<1> QED BY <1>1, <1>2, <1>4, <1>5, <1>6, DeviceAssumption

(* After Store the set is S: its members are listed and all have a Hash. *)
LEMMA StoreFacts ==
    ASSUME TypeOK, NEW f \in Families, NEW at \in Nat, at > 0,
           NEW S, S \subseteq Swept(f), Store(S, f, at)
    PROVE  /\ score' \in [Families -> Times]
           /\ hash' \in [Families -> {"none", "dated", "rebuilt"}]
           /\ S = {h \in Families : score'[h] > 0}
           /\ \A h \in S : hash'[h] # "none"
<1>1. score \in [Families -> Nat] /\ hash \in [Families -> {"none", "dated", "rebuilt"}]
    BY DEF TypeOK, Times
<1>2. score' \in [Families -> Times]
    BY <1>1 DEF Store, Times
<1>3. hash' \in [Families -> {"none", "dated", "rebuilt"}]
    BY <1>1 DEF Store
<1>4. S \subseteq Families /\ \A h \in S : h = f \/ (score[h] > 0 /\ hash[h] # "none")
    BY DEF Swept, Listed
<1>5. \A h \in Families : score'[h] = IF h = f /\ f \in S THEN at
                                      ELSE IF h \in S THEN score[h] ELSE 0
    BY DEF Store
<1>6. S = {h \in Families : score'[h] > 0}
    <2>1. \A h \in Families : h \in S => score'[h] > 0
        BY <1>4, <1>5
    <2>2. \A h \in Families : h \notin S => ~(score'[h] > 0)
        BY <1>5
    <2> QED BY <2>1, <2>2, <1>4
<1>7. ASSUME NEW h \in S PROVE hash'[h] # "none"
    <2>1. h \in Families
        BY <1>4
    <2>2. hash'[h] = IF h = f /\ f \in S THEN "dated"
                     ELSE IF h \in Swept(f) \ S THEN "none"
                     ELSE IF h \in S /\ hash[h] = "rebuilt" THEN "dated"
                     ELSE hash[h]
        BY <2>1 DEF Store
    <2> QED BY <2>2, <1>4
<1> QED BY <1>2, <1>3, <1>6, <1>7

(* What Enlist does to the records. *)
LEMMA EnlistFacts ==
    ASSUME TypeOK, ListedWithinLimit, NEW p \in Requests, NEW f \in Families,
           NEW at \in Nat, at > 0, NEW g \in Families \cup {None}, Enlist(p, f, at, g)
    PROVE  /\ score' \in [Families -> Times]
           /\ hash' \in [Families -> {"none", "dated", "rebuilt"}]
           /\ \A h \in Families : score'[h] > 0 => h = f \/ score[h] > 0
           /\ ListedWithinLimit'
           /\ \/ journal' = journal /\ displaced' = displaced
              \/ /\ g \in Families /\ (g = f \/ score[g] > 0)
                 /\ journal' = journal \cup {<<p, g>>}
                 /\ displaced' = displaced \cup {<<p, g>>}
                 /\ Cardinality({h \in Families : score'[h] > 0 /\ hash'[h] # "none"})
                        = Limit
<1> DEFINE S == Swept(f)
<1>0. /\ S \subseteq Families
      /\ \A h \in S : h = f \/ score[h] > 0
      /\ {h \in Families : Listed(h)}' = {h \in Families : score'[h] > 0}
    BY DEF Swept, Listed
<1>1. IsFiniteSet(S) /\ Cardinality(S) \in Nat /\ Cardinality(S) <= Limit + 1
    BY SweptSize
<1>2. CASE /\ Cardinality(S) <= Limit /\ Store(S, f, at)
           /\ UNCHANGED <<journal, displaced>>
    <2>1. /\ score' \in [Families -> Times]
          /\ hash' \in [Families -> {"none", "dated", "rebuilt"}]
          /\ S = {h \in Families : score'[h] > 0}
        BY <1>2, StoreFacts
    <2>2. \A h \in Families : score'[h] > 0 => h \in S
        BY <2>1
    <2>3. ListedWithinLimit'
        BY <2>1, <1>0, <1>2 DEF ListedWithinLimit
    <2> QED BY <2>1, <2>2, <2>3, <1>0, <1>2
<1>3. CASE /\ Cardinality(S) > Limit /\ g \in S /\ Store(S \ {g}, f, at)
           /\ journal' = journal \cup {<<p, g>>}
           /\ displaced' = displaced \cup {<<p, g>>}
    <2>0. S \ {g} \subseteq Swept(f)
        OBVIOUS
    <2>1. /\ score' \in [Families -> Times]
          /\ hash' \in [Families -> {"none", "dated", "rebuilt"}]
          /\ S \ {g} = {h \in Families : score'[h] > 0}
          /\ \A h \in S \ {g} : hash'[h] # "none"
        BY <2>0, <1>3, StoreFacts
    <2>2. \A h \in Families : score'[h] > 0 => h \in S
        BY <2>1
    <2>3. Cardinality(S \ {g}) = Limit
        <3>1. Cardinality(S \ {g}) = Cardinality(S) - 1
            BY <1>1, <1>3, FS_RemoveElement
        <3>2. Cardinality(S) = Limit + 1
            BY <1>1, <1>3, DeviceAssumption
        <3> QED BY <3>1, <3>2, DeviceAssumption
    <2>4. ListedWithinLimit'
        BY <2>1, <2>3, <1>0, DeviceAssumption DEF ListedWithinLimit
    <2>5. {h \in Families : score'[h] > 0 /\ hash'[h] # "none"} = S \ {g}
        BY <2>1
    <2> QED BY <2>1, <2>2, <2>3, <2>4, <2>5, <1>0, <1>3
<1> QED BY <1>2, <1>3 DEF Enlist

-----------------------------------------------------------------------------
(* The steps of a request. *)

(* A request moves to a state r that RequestOK allows. *)
LEMMA RequestMoves ==
    ASSUME Inv, NEW p \in Requests, NEW r \in Request, req' = [req EXCEPT ![p] = r],
           committed \subseteq committed',
           \A f \in Families : session[f] # "none" => session'[f] # "none",
           r.pc \in {"register", "evict"} => p \in committed',
           r.pc \in {"register", "touch"} =>
                r.fam \in Families /\ session'[r.fam] # "none" /\ r.at > 0,
           r.pc = "evict" => r.evicts \in Families
    PROVE  req' \in [Requests -> Request] /\ RequestsOK'
<1>1. req \in [Requests -> Request]
    BY DEF Inv, TypeOK
<1>2. req' \in [Requests -> Request]
    BY <1>1
<1>3. ASSUME NEW q \in Requests PROVE RequestOK(q)'
    <2>1. CASE q = p
        <3>1. req'[q] = r
            BY <2>1, <1>1
        <3> QED BY <2>1, <3>1 DEF RequestOK
    <2>2. CASE q # p
        <3>1. req'[q] = req[q] /\ RequestOK(q)
            BY <2>2, <1>1 DEF Inv, RequestsOK
        <3> QED BY <3>1 DEF RequestOK
    <2> QED BY <2>1, <2>2
<1> QED BY <1>2, <1>3 DEF RequestsOK

(* Goto keeps everything of the request but its place. *)
LEMMA FaultTyped ==
    ASSUME TypeOK, UNCHANGED faults \/ Fault
    PROVE  faults' \in 0..MaxFaults
<1>1. MaxFaults \in Nat /\ faults \in 0..MaxFaults
    BY DeviceAssumption, Zenon DEF TypeOK
<1>2. faults' = faults \/ (faults < MaxFaults /\ faults' = faults + 1)
    BY Zenon DEF Fault
<1> QED BY ONLY <1>1, <1>2

LEMMA GotoFacts ==
    ASSUME TypeOK, NEW p \in Requests, NEW pc, Goto(p, pc),
           pc \in {"begin", "register", "touch", "rotate", "evict", "remove",
                   "removeAll", "done"}
    PROVE  \E r \in Request : /\ req' = [req EXCEPT ![p] = r] /\ r.pc = pc
                              /\ r.fam = req[p].fam /\ r.evicts = req[p].evicts
<1>1. req[p] \in Request
    BY DEF TypeOK
<1> DEFINE r == [req[p] EXCEPT !.pc = pc]
<1>2. r \in Request /\ r.pc = pc /\ r.fam = req[p].fam /\ r.evicts = req[p].evicts
    BY <1>1 DEF Request
<1>3. req' = [req EXCEPT ![p] = r]
    BY DEF Goto
<1> HIDE DEF r
<1> QED BY <1>2, <1>3

(* A request that commits, refuses or revokes, and leaves the records alone. *)
LEMMA ServeInv ==
    ASSUME Inv, NEW p \in Requests, NEW r \in Request, req' = [req EXCEPT ![p] = r],
           req[p].pc # "done", UNCHANGED records, UNCHANGED ack,
           session' \in [Families -> Session], gen' \in [Families -> Nat],
           clock' \in Times, faults' \in 0..MaxFaults,
           committed' = committed \/ committed' = committed \cup {p},
           evictedBy' \subseteq committed',
           \A f \in Families : session[f] # "none" =>
                session'[f] # "none" /\ (session'[f] = "live" => session[f] = "live"),
           r.pc \in {"register", "evict"} => p \in committed',
           r.pc \in {"register", "touch"} =>
                r.fam \in Families /\ session'[r.fam] # "none" /\ r.at > 0,
           r.pc = "evict" => r.evicts \in Families
    PROVE  Inv'
<1>0. TypeOK /\ req \in [Requests -> Request]
    BY DEF Inv, TypeOK
<1>1. committed \subseteq committed' /\ committed' \subseteq Requests
    BY <1>0 DEF TypeOK
<1>2. req' \in [Requests -> Request] /\ RequestsOK'
    BY <1>1, RequestMoves
<1>3. TypeOK'
    BY <1>0, <1>1, <1>2 DEF TypeOK, records
<1>4. \A q \in Requests : req[q].pc = "done" =>
            req'[q].pc = "done" /\ (q \in committed' => q \in committed)
    <2> SUFFICES ASSUME NEW q \in Requests, req[q].pc = "done"
                 PROVE  req'[q].pc = "done" /\ (q \in committed' => q \in committed)
        OBVIOUS
    <2>1. q # p
        OBVIOUS
    <2>2. req'[q] = req[q]
        BY <2>1, <1>0
    <2> QED BY <2>1, <2>2
<1>5. NoCollateralEviction'
    BY DEF NoCollateralEviction
<1> QED BY <1>2, <1>3, <1>4, <1>5, SessionStep

(* A login commits, a refresh finds its token, or a session is ended by name.    *)
LEMMA NewStepInv ==
    ASSUME Inv, NEW p \in Requests, NewStep(p)
    PROVE  Inv'
<1>0. /\ TypeOK /\ clock \in Nat /\ clock + 1 \in Nat /\ clock + 1 > 0
      /\ session \in [Families -> Session] /\ evictedBy \subseteq committed
    BY DEF Inv, TypeOK, Times, NoCollateralEviction
<1>1. /\ gen \in [Families -> Nat] /\ clock \in Times /\ clock + 1 \in Times
      /\ faults \in 0..MaxFaults
    BY <1>0 DEF TypeOK, Times
<1>2. ASSUME NEW f \in Families, LoginCommit(p, f) PROVE Inv'
    <2> DEFINE r == [pc |-> "register", fam |-> f, gen |-> 0, at |-> clock + 1,
                     evicts |-> None]
    <2>1. r \in Request /\ r.pc = "register" /\ r.fam = f /\ r.at = clock + 1
        BY <1>0 DEF Request, Times
    <2>2. /\ req' = [req EXCEPT ![p] = r] /\ req[p].pc # "done"
          /\ UNCHANGED <<gen, records, ack, evictedBy, faults>>
          /\ clock' = clock + 1 /\ committed' = committed \cup {p}
          /\ session[f] = "none" /\ session' = [session EXCEPT ![f] = "live"]
        BY <1>2 DEF LoginCommit
    <2> HIDE DEF r
    <2>3. /\ session' \in [Families -> Session] /\ session'[f] # "none"
          /\ \A g \in Families : session[g] # "none" =>
                session'[g] # "none" /\ (session'[g] = "live" => session[g] = "live")
        BY <2>2, <1>0 DEF Session
    <2>4. evictedBy' \subseteq committed' /\ p \in committed'
        BY <2>2, <1>0
    <2> QED BY <2>1, <2>2, <2>3, <2>4, <1>0, <1>1, ServeInv
<1>3. ASSUME NEW f \in Families, RefreshFind(p, f) PROVE Inv'
    <2> DEFINE r == [pc |-> "touch", fam |-> f, gen |-> gen[f], at |-> clock + 1,
                     evicts |-> None]
    <2>1. r \in Request /\ r.pc = "touch" /\ r.fam = f /\ r.at = clock + 1
        BY <1>0, <1>1 DEF Request, Times
    <2>2. /\ req' = [req EXCEPT ![p] = r] /\ req[p].pc # "done"
          /\ UNCHANGED <<session, gen, committed, records, ack, evictedBy, faults>>
          /\ clock' = clock + 1 /\ session[f] = "live"
        BY <1>3 DEF RefreshFind, sessions
    <2> HIDE DEF r
    <2> QED BY <2>1, <2>2, <1>0, <1>1, ServeInv
<1>4. ASSUME NEW f \in Families, RefreshExpired(p, f) \/ Logout(p, f) PROVE Inv'
    <2> DEFINE r == [NewRequest EXCEPT !.pc = "remove", !.fam = f]
    <2>1. r \in Request /\ r.pc = "remove"
        BY DEF Request, Times, NewRequest
    <2>2. /\ req' = [req EXCEPT ![p] = r] /\ req[p].pc # "done"
          /\ UNCHANGED <<gen, committed, clock, records, ack, evictedBy, faults>>
          /\ session' = session \/ CutFamily(f)
        BY <1>4 DEF RefreshExpired, Logout, sessions
    <2> HIDE DEF r
    <2>3. /\ session' \in [Families -> Session]
          /\ \A g \in Families : session[g] # "none" =>
                session'[g] # "none" /\ (session'[g] = "live" => session[g] = "live")
        BY <2>2, <1>0 DEF Session, CutFamily
    <2> QED BY <2>1, <2>2, <2>3, <1>0, <1>1, ServeInv
<1>5. CASE RevokeAllByUser(p)
    <2>1. PICK r \in Request : req' = [req EXCEPT ![p] = r] /\ r.pc = "removeAll"
        BY <1>0, <1>5, GotoFacts DEF RevokeAllByUser
    <2>2. /\ req[p].pc # "done"
          /\ UNCHANGED <<gen, committed, clock, records, ack, evictedBy, faults>>
          /\ session' = [f \in Families |->
                IF session[f] \in {"live", "expired"} THEN "closed" ELSE session[f]]
        BY <1>5 DEF RevokeAllByUser
    <2>3. /\ session' \in [Families -> Session]
          /\ \A g \in Families : session[g] # "none" =>
                session'[g] # "none" /\ (session'[g] = "live" => session[g] = "live")
        BY <2>2, <1>0 DEF Session
    <2> QED BY <2>1, <2>2, <2>3, <1>0, <1>1, ServeInv
<1> QED BY <1>2, <1>3, <1>4, <1>5 DEF NewStep

(* A rotation commits or is refused, an eviction revokes, a request dies. *)
LEMMA RotateStepInv ==
    ASSUME Inv, NEW p \in Requests,
           RotateCommit(p) \/ RotateRefused(p) \/ RotateEnds(p) \/ RevokeEvicted(p)
                \/ Abandon(p)
    PROVE  Inv'
<1>0. /\ TypeOK /\ req[p] \in Request /\ RequestOK(p)
      /\ session \in [Families -> Session] /\ evictedBy \subseteq committed
      /\ gen \in [Families -> Nat] /\ clock \in Times /\ faults \in 0..MaxFaults
    BY DEF Inv, TypeOK, NoCollateralEviction, RequestsOK
<1>1. CASE RotateCommit(p)
    <2> DEFINE pc == IF req[p].evicts = None THEN "done" ELSE "evict"
    <2>1. PICK r \in Request : /\ req' = [req EXCEPT ![p] = r] /\ r.pc = pc
                               /\ r.evicts = req[p].evicts
        BY <1>0, <1>1, GotoFacts DEF RotateCommit
    <2>2. /\ req[p].pc # "done" /\ committed' = committed \cup {p}
          /\ UNCHANGED <<session, clock, records, ack, evictedBy, faults>>
          /\ gen' = [gen EXCEPT ![req[p].fam] = @ + 1]
        BY <1>1 DEF RotateCommit
    <2>3. gen' \in [Families -> Nat]
        <3>1. /\ DOMAIN gen' = Families
              /\ gen' = [f \in Families |-> IF f = req[p].fam THEN gen[f] + 1 ELSE gen[f]]
            BY <2>2, <1>0
        <3>2. \A f \in Families : gen[f] \in Nat /\ gen[f] + 1 \in Nat
            BY <1>0
        <3> QED BY <3>1, <3>2
    <2>4. r.pc = "evict" => r.evicts \in Families
        BY <2>1 DEF Request
    <2>5. r.pc \notin {"register", "touch"} /\ p \in committed' /\ evictedBy' \subseteq committed'
        BY <2>1, <2>2, <1>0
    <2> QED BY <2>1, <2>2, <2>3, <2>4, <2>5, <1>0, ServeInv
<1>2. CASE RotateRefused(p) \/ Abandon(p)
    <2>1. PICK r \in Request : req' = [req EXCEPT ![p] = r] /\ r.pc = "done"
        <3>1. Goto(p, "done")
            BY <1>2, Zenon DEF RotateRefused, Abandon
        <3> QED BY <1>0, <3>1, GotoFacts
    <2>2. /\ req[p].pc # "done"
          /\ UNCHANGED <<session, gen, committed, clock, records, ack, evictedBy>>
        BY <1>2 DEF RotateRefused, Abandon, sessions
    <2>3. faults' \in 0..MaxFaults
        BY <1>0, <1>2, FaultTyped, Zenon DEF RotateRefused, Abandon
    <2> QED BY <2>1, <2>2, <2>3, <1>0, ServeInv
<1>3. CASE RotateEnds(p)
    <2>1. PICK r \in Request : req' = [req EXCEPT ![p] = r] /\ r.pc = "remove"
        <3>1. Goto(p, "remove")
            BY <1>3, Zenon DEF RotateEnds
        <3> QED BY <1>0, <3>1, GotoFacts
    <2>2. /\ req[p].pc # "done"
          /\ UNCHANGED <<gen, committed, clock, records, ack, evictedBy, faults>>
          /\ session' = session \/ session' = [session EXCEPT ![req[p].fam] = "cut"]
        BY <1>3 DEF RotateEnds
    <2>3. /\ session' \in [Families -> Session]
          /\ \A g \in Families : session[g] # "none" =>
                session'[g] # "none" /\ (session'[g] = "live" => session[g] = "live")
        BY <2>2, <1>0 DEF Session
    <2> QED BY <2>1, <2>2, <2>3, <1>0, ServeInv
<1>4. CASE RevokeEvicted(p)
    <2> DEFINE r == [req[p] EXCEPT !.pc = "remove", !.fam = req[p].evicts]
    <2>1. r \in Request /\ r.pc = "remove" /\ req' = [req EXCEPT ![p] = r]
        BY <1>0, <1>4 DEF Request, RevokeEvicted
    <2>2. /\ req[p].pc = "evict" /\ CutFamily(req[p].evicts)
          /\ UNCHANGED <<gen, committed, clock, records, ack, faults>>
          /\ evictedBy' = evictedBy \cup {p}
        BY <1>4 DEF RevokeEvicted
    <2> HIDE DEF r
    <2>3. /\ session' \in [Families -> Session]
          /\ \A g \in Families : session[g] # "none" =>
                session'[g] # "none" /\ (session'[g] = "live" => session[g] = "live")
        BY <2>2, <1>0 DEF Session, CutFamily
    <2>4. evictedBy' \subseteq committed'
        BY <2>2, <1>0 DEF RequestOK
    <2> QED BY <2>1, <2>2, <2>3, <2>4, <1>0, ServeInv
<1> QED BY <1>1, <1>2, <1>3, <1>4

(* One call of a registering script, whatever became of it: the records changed  *)
(* as RecordStep allows, and the request went on.                                *)
LEMMA CallInv ==
    ASSUME Inv, NEW p \in Requests, NEW r \in Request, req' = [req EXCEPT ![p] = r],
           req[p].pc # "done", r.pc \in {"rotate", "done", "evict"},
           r.pc = "evict" => p \in committed /\ r.evicts \in Families,
           UNCHANGED <<session, gen, committed, clock, ack, evictedBy>>,
           faults' \in 0..MaxFaults,
           score' \in [Families -> Times],
           hash' \in [Families -> {"none", "dated", "rebuilt"}],
           ListedWithinLimit',
           \A f \in Families : score'[f] > 0 => session[f] # "none",
           NEW D \in SUBSET Entries, journal' = journal \cup D,
           displaced' = displaced \cup D, \A e \in D : session[e[2]] # "none"
    PROVE  Inv'
<1>0. TypeOK /\ req \in [Requests -> Request]
    BY DEF Inv, TypeOK
<1>1. req' \in [Requests -> Request] /\ RequestsOK'
    BY RequestMoves
<1>2. TypeOK'
    BY <1>0, <1>1 DEF TypeOK
<1>3. \A q \in Requests : req[q].pc = "done" => req'[q].pc = "done"
    BY <1>0
<1> QED BY <1>1, <1>2, <1>3, RecordStep

(* RegisterDevice of a login, and TouchDevice of a refresh. *)
LEMMA RegisterStepInv ==
    ASSUME Inv, NEW p \in Requests, RegisterDevice(p) \/ TouchDevice(p)
    PROVE  Inv'
<1>0. /\ TypeOK /\ req[p] \in Request /\ RequestOK(p) /\ ListedIsOpen /\ ListedWithinLimit
      /\ score \in [Families -> Times] /\ hash \in [Families -> {"none", "dated", "rebuilt"}]
      /\ faults \in 0..MaxFaults
    BY DEF Inv, TypeOK, RequestsOK
<1>1. PICK f \in Families, at \in Nat : /\ f = req[p].fam /\ at = req[p].at
                                        /\ session[f] # "none" /\ at > 0
    BY <1>0 DEF RequestOK, Request, Times, RegisterDevice, TouchDevice
<1>2. /\ req[p].pc # "done" /\ req[p].pc \in {"register", "touch"}
      /\ UNCHANGED <<session, gen, committed, clock, ack, evictedBy>>
    BY DEF RegisterDevice, TouchDevice, sessions
<1> DEFINE Effect(g) == Enlist(p, f, at, g) \/ (g = None /\ TouchMember(f))
           Step(g) == Call(p, g, Effect(g))
           Written == \E D \in SUBSET Entries :
                /\ score' \in [Families -> Times]
                /\ hash' \in [Families -> {"none", "dated", "rebuilt"}]
                /\ ListedWithinLimit'
                /\ \A h \in Families : score'[h] > 0 => session[h] # "none"
                /\ journal' = journal \cup D /\ displaced' = displaced \cup D
                /\ \A e \in D : session[e[2]] # "none"
<1>3. PICK g \in Families \cup {None} : Call(p, g, Effect(g))
    BY <1>1 DEF RegisterDevice, TouchDevice, Call
<1>4. Effect(g) => Written
    <2>1. CASE Enlist(p, f, at, g)
        <3>1. /\ score' \in [Families -> Times]
              /\ hash' \in [Families -> {"none", "dated", "rebuilt"}]
              /\ ListedWithinLimit'
              /\ \A h \in Families : score'[h] > 0 => h = f \/ score[h] > 0
              /\ \/ journal' = journal /\ displaced' = displaced
                 \/ /\ g \in Families /\ (g = f \/ score[g] > 0)
                    /\ journal' = journal \cup {<<p, g>>}
                    /\ displaced' = displaced \cup {<<p, g>>}
            <4>1. TypeOK /\ ListedWithinLimit /\ at > 0
                BY <1>0, <1>1
            <4> QED BY <4>1, <2>1, EnlistFacts
        <3>2. \A h \in Families : score'[h] > 0 => session[h] # "none"
            BY <3>1, <1>0, <1>1 DEF ListedIsOpen
        <3>3. CASE journal' = journal /\ displaced' = displaced
            <4>1. {} \in SUBSET Entries /\ journal' = journal \cup {}
                    /\ displaced' = displaced \cup {} /\ \A e \in {} : session[e[2]] # "none"
                BY <3>3
            <4> QED BY <3>1, <3>2, <4>1
        <3>4. CASE /\ g \in Families /\ (g = f \/ score[g] > 0)
                   /\ journal' = journal \cup {<<p, g>>}
                   /\ displaced' = displaced \cup {<<p, g>>}
            <4>1. session[g] # "none"
                BY <3>4, <1>0, <1>1 DEF ListedIsOpen
            <4>2. {<<p, g>>} \in SUBSET Entries /\ \A e \in {<<p, g>>} : session[e[2]] # "none"
                BY <3>4, <4>1 DEF Entries
            <4> QED BY <3>1, <3>2, <3>4, <4>2
        <3> QED BY <3>1, <3>3, <3>4
    <2>2. CASE g = None /\ TouchMember(f)
        <3>1. /\ UNCHANGED <<score, journal, displaced>>
              /\ hash' \in [Families -> {"none", "dated", "rebuilt"}]
            BY <2>2, <1>0 DEF TouchMember
        <3>2. ListedWithinLimit'
            BY <3>1, <1>0, FewerListed
        <3>3. {} \in SUBSET Entries /\ journal' = journal \cup {}
                /\ displaced' = displaced \cup {} /\ \A e \in {} : session[e[2]] # "none"
            BY <3>1
        <3> QED BY <3>1, <3>2, <3>3, <1>0 DEF ListedIsOpen
    <2> QED BY <2>1, <2>2
<1>5. UNCHANGED records => Written
    <2> SUFFICES ASSUME UNCHANGED records PROVE Written
        OBVIOUS
    <2>1. UNCHANGED <<score, hash, journal, displaced>>
        BY DEF records
    <2>2. ListedWithinLimit'
        BY <2>1, <1>0, FewerListed
    <2>3. {} \in SUBSET Entries /\ journal' = journal \cup {}
            /\ displaced' = displaced \cup {} /\ \A e \in {} : session[e[2]] # "none"
        BY <2>1
    <2> QED BY <2>1, <2>2, <2>3, <1>0 DEF ListedIsOpen
<1>6. ASSUME NEW r \in Request, req' = [req EXCEPT ![p] = r], Written,
             r.pc \in {"rotate", "done", "evict"}, faults' \in 0..MaxFaults,
             r.pc = "evict" => p \in committed /\ r.evicts \in Families
      PROVE  Inv'
    BY <1>2, <1>6, CallInv
<1> HIDE DEF Written, Effect
<1>7. CASE /\ Effect(g) /\ UNCHANGED faults
           /\ req' = [req EXCEPT ![p].evicts = g,
                    ![p].pc = IF req[p].pc = "touch" THEN "rotate"
                              ELSE IF g = None THEN "done" ELSE "evict"]
    <2> DEFINE pc == IF req[p].pc = "touch" THEN "rotate"
                     ELSE IF g = None THEN "done" ELSE "evict"
               r == [req[p] EXCEPT !.evicts = g, !.pc = pc]
    <2>1. pc \in {"rotate", "done", "evict"}
            /\ (pc = "evict" => req[p].pc = "register" /\ g \in Families)
        BY <1>2
    <2> HIDE DEF pc
    <2>2. r \in Request /\ r.pc = pc /\ r.evicts = g
        BY <2>1, <1>0 DEF Request
    <2>3. req' = [req EXCEPT ![p] = r]
        BY <1>7, <1>0 DEF pc, TypeOK
    <2>4. pc = "evict" => p \in committed
        BY <2>1, <1>0 DEF RequestOK
    <2> HIDE DEF r
    <2>5. faults' \in 0..MaxFaults
        BY <1>7, <1>0
    <2> QED BY <2>1, <2>2, <2>3, <2>4, <2>5, <1>4, <1>6, <1>7
<1>8. CASE /\ Effect(g) \/ UNCHANGED records
           /\ UNCHANGED faults \/ Fault
           /\ Goto(p, IF req[p].pc = "touch" THEN "rotate" ELSE "done")
    <2>1. PICK r \in Request : /\ req' = [req EXCEPT ![p] = r]
                               /\ r.pc = IF req[p].pc = "touch" THEN "rotate" ELSE "done"
        <3> DEFINE pc == IF req[p].pc = "touch" THEN "rotate" ELSE "done"
        <3>1. Goto(p, pc) /\ pc \in {"rotate", "done"}
            BY <1>8, Zenon
        <3> HIDE DEF pc
        <3>2. PICK r \in Request : req' = [req EXCEPT ![p] = r] /\ r.pc = pc
            BY <1>0, <3>1, GotoFacts
        <3> QED BY <3>2, Zenon DEF pc
    <2>2. r.pc \in {"rotate", "done"}
        BY <2>1
    <2>3. faults' \in 0..MaxFaults
        BY <1>0, <1>8, FaultTyped, Zenon
    <2> QED BY <2>1, <2>2, <2>3, <1>4, <1>5, <1>6, <1>8
<1> QED BY <1>3, <1>7, <1>8 DEF Call

(* RemoveDevice and RemoveAllDevices of a request. *)
LEMMA RemoveStepInv ==
    ASSUME Inv, NEW p \in Requests, RemoveDevice(p) \/ RemoveAllDevices(p)
    PROVE  Inv'
<1>0. /\ TypeOK /\ ListedWithinLimit /\ ListedIsOpen
      /\ score \in [Families -> Nat] /\ hash \in [Families -> {"none", "dated", "rebuilt"}]
    BY DEF Inv, TypeOK, Times
<1>1. /\ UNCHANGED <<session, gen, committed, clock, ack, evictedBy, faults>>
      /\ UNCHANGED <<journal, displaced>> /\ req[p].pc # "done"
    BY DEF RemoveDevice, RemoveAllDevices, sessions
<1>2. PICK r \in Request : req' = [req EXCEPT ![p] = r] /\ r.pc = "done"
    BY <1>0, GotoFacts DEF RemoveDevice, RemoveAllDevices
<1>3. /\ score' \in [Families -> Nat]
      /\ \A f \in Families : score'[f] > 0 => score[f] > 0
    BY <1>0 DEF RemoveDevice, RemoveAllDevices
<1>4. hash' \in [Families -> {"none", "dated", "rebuilt"}]
    BY <1>0 DEF RemoveDevice, RemoveAllDevices
<1>5. ListedWithinLimit'
    BY <1>0, <1>3, FewerListed
<1>6. \A f \in Families : score'[f] > 0 => session[f] # "none"
    BY <1>0, <1>3 DEF ListedIsOpen
<1>7. /\ {} \in SUBSET Entries /\ \A e \in {} : session[e[2]] # "none"
      /\ journal' = journal \cup {} /\ displaced' = displaced \cup {}
    BY <1>1
<1>8. faults' \in 0..MaxFaults /\ score' \in [Families -> Times]
    BY <1>0, <1>1, <1>3 DEF TypeOK, Times
<1> QED BY <1>1, <1>2, <1>4, <1>5, <1>6, <1>7, <1>8, CallInv

(* Records age out, or ListDevices drops the members without a Hash. *)
LEMMA AgeStepInv ==
    ASSUME Inv, ListDevices \/ SetExpires \/ (\E f \in Families : HashExpires(f))
    PROVE  Inv'
<1>0. /\ TypeOK /\ ListedWithinLimit /\ ListedIsOpen /\ RequestsOK
      /\ score \in [Families -> Nat] /\ hash \in [Families -> {"none", "dated", "rebuilt"}]
    BY DEF Inv, TypeOK, Times
<1>1. /\ UNCHANGED <<session, gen, committed, clock, ack, evictedBy, faults>>
      /\ UNCHANGED <<journal, displaced, req>>
    BY DEF ListDevices, SetExpires, HashExpires, sessions
<1>2. /\ score' \in [Families -> Nat]
      /\ \A f \in Families : score'[f] > 0 => score[f] > 0
    BY <1>0 DEF ListDevices, SetExpires, HashExpires
<1>3. hash' \in [Families -> {"none", "dated", "rebuilt"}]
    BY <1>0 DEF ListDevices, SetExpires, HashExpires
<1>4. TypeOK'
    BY <1>0, <1>1, <1>2, <1>3 DEF TypeOK, Times
<1>5. ListedWithinLimit'
    BY <1>0, <1>2, FewerListed
<1>6. \A f \in Families : score'[f] > 0 => session[f] # "none"
    BY <1>0, <1>2 DEF ListedIsOpen
<1>7. RequestsOK'
    BY <1>0, <1>1 DEF RequestsOK, RequestOK
<1>8. /\ {} \in SUBSET Entries /\ \A e \in {} : session[e[2]] # "none"
      /\ journal' = journal \cup {} /\ displaced' = displaced \cup {}
    BY <1>1
<1> QED BY <1>1, <1>4, <1>5, <1>6, <1>7, <1>8, RecordStep

(* A session expires, a worker resolves an entry or dies. *)
LEMMA ResolveStepInv ==
    ASSUME Inv,
           \/ \E f \in Families : SessionExpires(f)
           \/ \E w \in Workers : \/ CrashWorker(w)
                                 \/ \E e \in journal : \/ ResolveDeviceEviction(w, e)
                                                       \/ ResolveUnproved(w, e)
    PROVE  Inv'
<1>0. /\ TypeOK /\ RequestsOK /\ evictedBy \subseteq committed
      /\ session \in [Families -> Session] /\ ack \in [Workers -> SUBSET Entries]
      /\ evictedBy \subseteq Requests /\ faults \in 0..MaxFaults
      /\ committed \subseteq Requests /\ journal \subseteq Entries
    BY DEF Inv, TypeOK, NoCollateralEviction
<1>1. ASSUME UNCHANGED <<gen, committed, clock, req, score, hash, journal, displaced>>,
             session' \in [Families -> Session], ack' \in [Workers -> SUBSET Entries],
             evictedBy' \subseteq committed, faults' \in 0..MaxFaults,
             \A f \in Families : session[f] # "none" =>
                session'[f] # "none" /\ (session'[f] = "live" => session[f] = "live"),
             \A w \in Workers : \A e \in ack'[w] :
                e \in ack[w] \/ (e \in journal /\ Resolved(e)')
      PROVE  Inv'
    <2>1. TypeOK'
        BY <1>0, <1>1 DEF TypeOK
    <2>2. RequestsOK'
        BY <1>0, <1>1 DEF RequestsOK, RequestOK
    <2>3. NoCollateralEviction' /\ UNCHANGED records
        BY <1>1 DEF NoCollateralEviction, records
    <2> QED BY <1>1, <2>1, <2>2, <2>3, SessionStep
<1>2. ASSUME NEW f \in Families, SessionExpires(f) PROVE Inv'
    <2>1. /\ UNCHANGED <<gen, committed, clock, req, score, hash, journal, displaced>>
          /\ UNCHANGED <<ack, evictedBy, faults>>
          /\ session' = [session EXCEPT ![f] = "expired"]
        BY <1>2 DEF SessionExpires, records
    <2>2. /\ session' \in [Families -> Session]
          /\ \A g \in Families : session[g] # "none" =>
                session'[g] # "none" /\ (session'[g] = "live" => session[g] = "live")
        BY <2>1, <1>0 DEF Session
    <2> QED BY <2>1, <2>2, <1>0, <1>1
<1>3. ASSUME NEW w \in Workers, CrashWorker(w) PROVE Inv'
    <2>1. /\ UNCHANGED <<gen, committed, clock, req, score, hash, journal, displaced>>
          /\ UNCHANGED <<session, evictedBy>> /\ Fault
          /\ ack' = [ack EXCEPT ![w] = {}]
        BY <1>3 DEF CrashWorker, sessions, records
    <2>2. faults' \in 0..MaxFaults
        BY <2>1, <1>0, DeviceAssumption DEF Fault
    <2>3. ack' \in [Workers -> SUBSET Entries] /\ \A x \in Workers : ack'[x] \subseteq ack[x]
        BY <2>1, <1>0
    <2> QED BY <2>1, <2>2, <2>3, <1>0, <1>1
<1>4. ASSUME NEW w \in Workers, NEW e \in journal,
             ResolveDeviceEviction(w, e) \/ ResolveUnproved(w, e)
      PROVE  Inv'
    <2>0. e \in Entries /\ e[1] \in Requests /\ e[2] \in Families
        BY <1>0 DEF Entries
    <2>1. /\ UNCHANGED <<gen, committed, clock, req, score, hash, journal, displaced>>
          /\ UNCHANGED faults /\ ack' = [ack EXCEPT ![w] = @ \cup {e}]
          /\ evictedBy' = evictedBy \/ (e[1] \in committed /\ evictedBy' = evictedBy \cup {e[1]})
        BY <1>4 DEF ResolveDeviceEviction, ResolveUnproved, sessions, records
    <2>2. /\ session' \in [Families -> Session]
          /\ \A g \in Families : session[g] # "none" =>
                session'[g] # "none" /\ (session'[g] = "live" => session[g] = "live")
        BY <1>0, <1>4, ZenonT(60) DEF Session, ResolveDeviceEviction, ResolveUnproved, CutFamily, sessions
    <2>3. Resolved(e)'
        <3>1. CASE ResolveDeviceEviction(w, e)
            BY <3>1, <2>0, <1>0 DEF ResolveDeviceEviction, CutFamily, Resolved
        <3>2. CASE ResolveUnproved(w, e)
            BY <3>2, <2>1 DEF ResolveUnproved, Resolved
        <3> QED BY <1>4, <3>1, <3>2
    <2>4. /\ ack' \in [Workers -> SUBSET Entries]
          /\ \A x \in Workers : ack'[x] \subseteq ack[x] \cup {e}
        BY <2>0, <2>1, <1>0
    <2>5. evictedBy' \subseteq committed
        BY <2>1, <1>0
    <2>6. \A x \in Workers : \A d \in ack'[x] : d \in ack[x] \/ (d \in journal /\ Resolved(d)')
        BY <2>3, <2>4
    <2> QED BY <2>1, <2>2, <2>4, <2>5, <2>6, <1>0, <1>1
<1> QED BY <1>2, <1>3, <1>4

(* AckDeviceEviction removes only what is resolved. *)
LEMMA AckStepInv ==
    ASSUME Inv, NEW w \in Workers, NEW e, AckDeviceEviction(w, e)
    PROVE  Inv'
<1>0. /\ TypeOK /\ ack \in [Workers -> SUBSET Entries] /\ faults \in 0..MaxFaults
      /\ journal \subseteq Entries
    BY DEF Inv, TypeOK
<1>1. /\ UNCHANGED <<session, gen, committed, score, hash, clock, req, displaced, evictedBy>>
      /\ e \in ack[w] /\ ack' = [ack EXCEPT ![w] = @ \ {e}]
      /\ journal' \subseteq journal /\ journal \ {e} \subseteq journal'
    BY DEF AckDeviceEviction, sessions
<1>2. faults' \in 0..MaxFaults
    BY <1>0, DeviceAssumption DEF AckDeviceEviction, Fault
<1>3. ack' \in [Workers -> SUBSET Entries] /\ \A x \in Workers : ack'[x] \subseteq ack[x]
    BY <1>0, <1>1
<1>4. TypeOK'
    BY <1>0, <1>1, <1>2, <1>3 DEF TypeOK
<1>5. RequestsOK' /\ ListedIsOpen' /\ DisplacedIsOpen' /\ NoCollateralEviction'
    BY <1>1 DEF Inv, RequestsOK, RequestOK, ListedIsOpen, DisplacedIsOpen,
        NoCollateralEviction
<1>6. \A d : Resolved(d)' = Resolved(d)
    BY <1>1 DEF Resolved
<1>7. AckIsResolved'
    BY <1>1, <1>3, <1>6 DEF Inv, AckIsResolved
<1>8. JournalKept'
    <2>1. Resolved(e)
        BY <1>1 DEF Inv, AckIsResolved
    <2> QED BY <2>1, <1>1, <1>6 DEF Inv, JournalKept
<1>9. ListedWithinLimit'
    BY <1>1, FewerListed DEF Inv
<1> QED BY <1>4, <1>5, <1>7, <1>8, <1>9 DEF Inv

(* Every step keeps Inv. *)
LEMMA NextInv == Inv /\ [Next]_vars => Inv'
<1> SUFFICES ASSUME Inv, [Next]_vars PROVE Inv'
    OBVIOUS
<1>1. CASE UNCHANGED vars
    <2>1. UNCHANGED records /\ UNCHANGED <<session, gen, committed, clock, req, ack,
                                            evictedBy, faults, score, hash, journal, displaced>>
        BY <1>1 DEF vars, records
    <2>2. TypeOK'
        BY <2>1 DEF Inv, TypeOK
    <2>3. RequestsOK' /\ NoCollateralEviction'
        BY <2>1 DEF Inv, RequestsOK, RequestOK, NoCollateralEviction
    <2> QED BY <2>1, <2>2, <2>3, SessionStep
<1>2. ASSUME NEW p \in Requests, NewStep(p) \/ RequestStep(p) \/ Abandon(p) PROVE Inv'
    BY <1>2, NewStepInv, RotateStepInv, RegisterStepInv, RemoveStepInv DEF RequestStep
<1>3. ASSUME NEW w \in Workers, NEW e, WorkerStep(w, e) PROVE Inv'
    <2>1. CASE AckDeviceEviction(w, e)
        BY <2>1, AckStepInv
    <2>2. CASE ResolveDeviceEviction(w, e) \/ ResolveUnproved(w, e)
        <3>1. e \in journal
            BY <2>2 DEF ResolveDeviceEviction, ResolveUnproved
        <3> QED BY <2>2, <3>1, ResolveStepInv
    <2> QED BY <1>3, <2>1, <2>2 DEF WorkerStep
<1>4. ASSUME NEW w \in Workers, CrashWorker(w) PROVE Inv'
    BY <1>4, ResolveStepInv
<1>5. ASSUME NEW f \in Families, HashExpires(f) \/ SessionExpires(f) PROVE Inv'
    BY <1>5, AgeStepInv, ResolveStepInv
<1>6. CASE ListDevices \/ SetExpires
    BY <1>6, AgeStepInv
<1> QED BY <1>1, <1>2, <1>3, <1>4, <1>5, <1>6 DEF Next

-----------------------------------------------------------------------------
(* The device records, the journal and the requests satisfy Inv at all times.    *)
THEOREM Invariance == Spec => []Inv
<1> QED BY InitInv, NextInv, PTL DEF Spec

(* The records, the journal and the requests keep their types (device_store.go). *)
THEOREM TypeCorrect == Spec => []TypeOK
<1>1. Inv => TypeOK
    BY DEF Inv
<1> QED BY <1>1, Invariance, PTL

(* However many logins and refreshes race, no more than Limit devices are listed *)
(* (registerDeviceScript, touchDeviceScript).                                    *)
THEOREM ListIsBounded == Spec => []ListedWithinLimit
<1>1. Inv => ListedWithinLimit
    BY DEF Inv
<1> QED BY <1>1, Invariance, PTL

(* Evictions are carried out only for committed logins and refreshes: a refresh  *)
(* that fails never costs another device its session (Refresh, the proof row of  *)
(* ResolveDeviceEviction).                                                       *)
THEOREM EvictionsAreEarned == Spec => []NoCollateralEviction
<1>1. Inv => NoCollateralEviction
    BY DEF Inv
<1> QED BY <1>1, Invariance, PTL

(* Whatever reply is lost and whoever dies, a session displaced by a committed   *)
(* login or refresh is over or still in the journal (pending_evictions).         *)
THEOREM NoEvictionIsForgotten == Spec => []DisplacedIsJournalled
<1>1. Inv => DisplacedIsJournalled
    BY DEF Inv, DisplacedIsJournalled, JournalKept, Resolved
<1> QED BY <1>1, Invariance, PTL

(* A registering script that displaces leaves Limit listed devices with a Hash.  *)
LEMMA DisplacingStep ==
    ASSUME Inv, [Next]_vars, displaced' # displaced
    PROVE  Cardinality({f \in Families : score'[f] > 0 /\ hash'[f] # "none"}) = Limit
<1>1. PICK p \in Requests : RegisterDevice(p) \/ TouchDevice(p)
    BY DEF Next, vars, records, NewStep, RequestStep, WorkerStep, LoginCommit, RefreshFind,
        RefreshExpired, Logout, RevokeAllByUser, RotateCommit, RotateRefused, RotateEnds,
        RevokeEvicted, RemoveDevice, RemoveAllDevices, Abandon, ResolveDeviceEviction,
        ResolveUnproved, AckDeviceEviction, CrashWorker, ListDevices, HashExpires,
        SetExpires, SessionExpires
<1>2. TypeOK /\ req[p] \in Request /\ RequestOK(p) /\ ListedWithinLimit
    BY DEF Inv, TypeOK, RequestsOK
<1>3. PICK f \in Families, at \in Nat : f = req[p].fam /\ at = req[p].at /\ at > 0
    BY <1>1, <1>2 DEF RequestOK, Request, Times, RegisterDevice, TouchDevice
<1>4. PICK g \in Families \cup {None} : Enlist(p, f, at, g)
    BY <1>1, <1>3 DEF RegisterDevice, TouchDevice, Call, TouchMember, records
<1> QED BY <1>2, <1>3, <1>4, EnlistFacts

(* A device is displaced only when Limit other devices with a Hash are listed:   *)
(* an aged-out record never costs a device its session (the sweep before the cap *)
(* check of both scripts).                                                       *)
THEOREM PhantomsDisplaceNobody == Spec => DisplacedOnlyWhenFull
<1>1. Inv /\ [Next]_vars => [displaced' # displaced =>
        Cardinality({f \in Families : score'[f] > 0 /\ hash'[f] # "none"}) = Limit]_vars
    BY DisplacingStep
<1> QED BY <1>1, Invariance, PTL DEF Spec, DisplacedOnlyWhenFull

(* The device list, its journal and the sessions are sound in every state, for   *)
(* any number of families, requests, workers and faults.                         *)
THEOREM EvictionsAreSound == Spec => []EvictionsSound
BY TypeCorrect, ListIsBounded, EvictionsAreEarned, NoEvictionIsForgotten, PTL
   DEF EvictionsSound
=============================================================================
