-------------------------- MODULE UserStore_proofs --------------------------
(***************************************************************************)
(* Proofs about UserStore for any number of workers, names, passwords,     *)
(* requests and starts: type correctness with the mutual exclusion of      *)
(* m_lock, that a registration answered with success is in the database,   *)
(* and that a name has one owner although it is tested without the lock.   *)
(***************************************************************************)
EXTENDS UserStore, ProofLemmas, SequenceTheorems

-----------------------------------------------------------------------------
(* The inductive invariant.  What connects the map and the table is a      *)
(* promise each worker carries through its critical section.               *)

\* After a crash nobody is inside do_request().
DownIsOut == ~up => holder = Nobody /\ \A w \in Workers : pc[w] = "out"

\* A worker whose query succeeded has its row, and once it has passed insert() the map has
\* the row's password or was spoilt before.
RowAdded == \A w \in Workers :
    pc[w] \in {"insert", "unlock"} /\ ~res[w] =>
        /\ req[w] \in Range(rows)
        /\ pc[w] = "unlock" => users[Name(w)] # Absent
        /\ pc[w] = "unlock" /\ unique => users[Name(w)] = req[w][2] \/ Name(w) \in spoilt

\* What a key on the name means.
KeyHolds == unique => \A i, j \in DOMAIN rows : rows[i][1] = rows[j][1] => i = j

IInv == TypeOK /\ DownIsOut /\ RowAdded /\ KeyHolds /\ ToldIsStored /\ OneOwner

\* The disjuncts of Next, flattened once for all the step proofs.
LEMMA NextCases ==
    ASSUME Next
    PROVE  \/ Start \/ Crash
           \/ \E w \in Workers, a \in Account : Request(w, a)
           \/ \E w \in Workers : Login(w)
           \/ \E w \in Workers : Test(w)
           \/ \E w \in Workers : Refuse(w)
           \/ \E w \in Workers : Lock(w)
           \/ \E w \in Workers : Query(w)
           \/ \E w \in Workers : Insert(w)
           \/ \E w \in Workers : Unlock(w)
  BY DEF Next, DoRequest

-----------------------------------------------------------------------------
(* Lemmas about the table                                                  *)

\* An appended row is in the table, and no row is lost.
LEMMA RowAppended ==
    ASSUME NEW r \in Seq(Account), NEW a \in Account
    PROVE  /\ Append(r, a) \in Seq(Account)
           /\ Range(Append(r, a)) = Range(r) \cup {a}
           /\ DOMAIN Append(r, a) = 1..(Len(r) + 1)
           /\ \A i \in DOMAIN r : i \in DOMAIN Append(r, a) /\ Append(r, a)[i] = r[i]
           /\ Append(r, a)[Len(r) + 1] = a
<1>1. /\ Append(r, a) \in Seq(Account) /\ Len(Append(r, a)) = Len(r) + 1
      /\ \A i \in 1..Len(r) : Append(r, a)[i] = r[i]
      /\ Append(r, a)[Len(r) + 1] = a
  BY AppendProperties
<1>2. DOMAIN r = 1..Len(r) /\ DOMAIN Append(r, a) = 1..(Len(r) + 1) /\ Len(r) \in Nat
  BY <1>1, LenProperties
<1>3. 1..(Len(r) + 1) = (1..Len(r)) \cup {Len(r) + 1}
  BY <1>2
<1>4. Range(Append(r, a)) = Range(r) \cup {a}
  <2>1. ASSUME NEW b PROVE b \in Range(Append(r, a)) <=> b \in Range(r) \cup {a}
    BY <1>1, <1>2, <1>3 DEF Range
  <2> QED BY <2>1
<1>5. \A i \in DOMAIN r : i \in DOMAIN Append(r, a) /\ Append(r, a)[i] = r[i]
  BY <1>1, <1>2, <1>3
<1> QED BY <1>1, <1>2, <1>4, <1>5

\* initmysql_result() gives a name the password of one of its rows.
LEMMA LoadedIsStored ==
    ASSUME rows \in Seq(Account), NEW n \in Names
    PROVE  /\ RowsOf(n) = {} => Loaded(n) = Absent
           /\ RowsOf(n) # {} => \E i \in RowsOf(n) : Loaded(n) = rows[i][2]
<1>1. RowsOf(n) \subseteq 0..Len(rows) /\ Len(rows) \in Nat
  BY LenProperties DEF RowsOf
<1>2. ASSUME RowsOf(n) # {}
      PROVE  \E i \in RowsOf(n) : \A j \in RowsOf(n) : j <= i
  BY <1>1, <1>2, GreatestNat
<1> QED BY <1>2 DEF Loaded

\* The map initmysql_result() fills has nothing the table does not have, and with a key
\* it has every row.
LEMMA MapLoaded ==
    ASSUME rows \in Seq(Account), NEW n \in Names
    PROVE  /\ Loaded(n) \in Passwords \cup {Absent}
           /\ Loaded(n) # Absent => <<n, Loaded(n)>> \in Range(rows)
           /\ KeyHolds /\ unique => \A p \in Passwords : <<n, p>> \in Range(rows) => Loaded(n) = p
<1>1. \A i \in DOMAIN rows : rows[i] \in Names \X Passwords /\ rows[i] \in Range(rows)
  BY LenProperties, ElementOfSeq DEF Range, Account
<1>2. CASE RowsOf(n) = {}
  <2>1. \A p \in Passwords : <<n, p>> \notin Range(rows)
    BY <1>2 DEF RowsOf, Range
  <2> QED BY <1>2, <2>1, LoadedIsStored
<1>3. CASE RowsOf(n) # {}
  <2>1. PICK i \in RowsOf(n) : Loaded(n) = rows[i][2]
    BY <1>3, LoadedIsStored
  <2>2. i \in DOMAIN rows /\ rows[i][1] = n
    BY DEF RowsOf
  <2>3. rows[i] = <<n, Loaded(n)>> /\ Loaded(n) \in Passwords
    BY <1>1, <2>1, <2>2
  <2>4. ASSUME KeyHolds, unique, NEW p \in Passwords, <<n, p>> \in Range(rows)
        PROVE  Loaded(n) = p
    <3>1. PICK j \in DOMAIN rows : rows[j] = <<n, p>>
      BY <2>4 DEF Range
    <3>2. i = j
      BY <2>2, <2>4, <3>1 DEF KeyHolds
    <3> QED BY <2>1, <3>1, <3>2
  <2> QED BY <1>1, <2>2, <2>3, <2>4
<1> QED BY <1>2, <1>3

-----------------------------------------------------------------------------

\* The server that has not started satisfies the inductive invariant.
LEMMA InvInit == Init => IInv
<1> SUFFICES ASSUME Init PROVE IInv
  OBVIOUS
<1> USE StoreAssumption DEF Init
<1>1. PICK n \in Names, p \in Passwords : TRUE
  OBVIOUS
<1>2. (CHOOSE a \in Account : TRUE) \in Account
  <2>1. <<n, p>> \in Account
    BY DEF Account
  <2> QED BY <2>1
<1>3. Range(rows) = {} /\ DOMAIN rows = {}
  BY DEF Range
<1>4. TypeOK
  <2>1. rows \in Seq(Account) /\ req \in [Workers -> Account]
    BY <1>2, EmptySeq
  <2>2. pc \in [Workers -> {"out", "login", "test", "lock", "refuse"} \cup InLock]
    OBVIOUS
  <2>3. \A w \in Workers : pc[w] \in InLock <=> holder = w
    BY DEF InLock
  <2>4. up \in BOOLEAN /\ unique \in BOOLEAN
    OBVIOUS
  <2>5. starts \in 0..MaxStarts /\ asked \in 0..MaxRequests
    <3>1. starts = 0 /\ asked = 0 /\ MaxStarts \in Nat /\ MaxRequests \in Nat
      OBVIOUS
    <3> QED BY <3>1
  <2>6. users \in [Names -> Passwords \cup {Absent}] /\ res \in [Workers -> BOOLEAN]
    OBVIOUS
  <2> QED BY <2>1, <2>2, <2>3, <2>4, <2>5, <2>6 DEF TypeOK
<1>5. DownIsOut /\ RowAdded
  BY DEF DownIsOut, RowAdded
<1>6. KeyHolds
  BY <1>3 DEF KeyHolds
<1>7. ToldIsStored /\ OneOwner
  BY DEF ToldIsStored, OneOwner
<1> QED BY <1>4, <1>5, <1>6, <1>7 DEF IInv

\* Every step keeps the types.
LEMMA TypeStep ==
    ASSUME IInv, [Next]_vars
    PROVE  TypeOK'
<1> USE StoreAssumption DEF IInv, TypeOK, Goto, InLock, workers
<1>1. CASE Start
  <2>1. \A n \in Names : Loaded(n) \in Passwords \cup {Absent}
    BY MapLoaded
  <2> QED BY <1>1, <2>1 DEF Start
<1>2. CASE Crash
  BY <1>2 DEF Crash
<1>3. ASSUME NEW w \in Workers, NEW a \in Account, Request(w, a) PROVE TypeOK'
  BY <1>3 DEF Request
<1>4. ASSUME NEW w \in Workers, Login(w) PROVE TypeOK'
  BY <1>4 DEF Login
<1>5. ASSUME NEW w \in Workers, Test(w) PROVE TypeOK'
  BY <1>5 DEF Test
<1>6. ASSUME NEW w \in Workers, Refuse(w) PROVE TypeOK'
  BY <1>6 DEF Refuse
<1>7. ASSUME NEW w \in Workers, Lock(w) PROVE TypeOK'
  BY <1>7 DEF Lock
<1>8. ASSUME NEW w \in Workers, Query(w) PROVE TypeOK'
  BY <1>8, RowAppended, SMTT(30) DEF Query
<1>9. ASSUME NEW w \in Workers, Insert(w) PROVE TypeOK'
  BY <1>9 DEF Insert, Name, Account
<1>10. ASSUME NEW w \in Workers, Unlock(w) PROVE TypeOK'
  BY <1>10 DEF Unlock
<1>11. CASE UNCHANGED vars
  BY <1>11 DEF vars
<1> QED BY <1>1, <1>2, <1>3, <1>4, <1>5, <1>6, <1>7, <1>8, <1>9, <1>10, <1>11, NextCases

\* A server that is down has no worker in a request, after every step.
LEMMA DownStep ==
    ASSUME IInv, [Next]_vars
    PROVE  DownIsOut'
<1> USE StoreAssumption DEF IInv, TypeOK, DownIsOut, Goto, InLock, workers
<1>1. CASE Start
  BY <1>1 DEF Start
<1>2. CASE Crash
  BY <1>2 DEF Crash
<1>3. ASSUME NEW w \in Workers, NEW a \in Account, Request(w, a) PROVE DownIsOut'
  BY <1>3 DEF Request
<1>4. ASSUME NEW w \in Workers, Login(w) \/ Test(w) \/ Refuse(w) PROVE DownIsOut'
  BY <1>4 DEF Login, Test, Refuse
<1>5. ASSUME NEW w \in Workers, Lock(w) \/ Query(w) \/ Insert(w) \/ Unlock(w) PROVE DownIsOut'
  BY <1>5 DEF Lock, Query, Insert, Unlock
<1>6. CASE UNCHANGED vars
  BY <1>6 DEF vars
<1> QED BY <1>1, <1>2, <1>3, <1>4, <1>5, <1>6, NextCases

\* Every step keeps users[] and the rows in step, as KeyHolds says.
LEMMA KeyStep ==
    ASSUME IInv, [Next]_vars
    PROVE  KeyHolds'
<1> USE DEF IInv
<1>1. ASSUME NEW w \in Workers, Query(w) PROVE KeyHolds'
  <2>1. CASE rows' = rows
    BY <1>1, <2>1 DEF Query, KeyHolds
  <2>2. CASE rows' = Append(rows, req[w]) /\ (unique => RowsOf(Name(w)) = {})
    <3>1. rows \in Seq(Account) /\ req[w] \in Account /\ Len(rows) \in Nat
      BY LenProperties DEF TypeOK
    <3>2. /\ DOMAIN rows' = 1..(Len(rows) + 1) /\ DOMAIN rows = 1..Len(rows)
          /\ \A i \in 1..Len(rows) : rows'[i] = rows[i]
          /\ rows'[Len(rows) + 1] = req[w]
      BY <2>2, <3>1, RowAppended, LenProperties
    <3>3. unique => \A i \in 1..Len(rows) : rows[i][1] # req[w][1]
      BY <2>2, <3>2 DEF RowsOf, Name
    <3>4. unique' = unique
      BY <1>1 DEF Query
    <3>5. ASSUME unique, NEW i \in 1..(Len(rows) + 1), NEW j \in 1..(Len(rows) + 1),
                 rows'[i][1] = rows'[j][1]
          PROVE  i = j
      <4>1. i \in 1..Len(rows) \/ i = Len(rows) + 1
        BY <3>1
      <4>2. j \in 1..Len(rows) \/ j = Len(rows) + 1
        BY <3>1
      <4> QED BY <3>2, <3>3, <3>5, <4>1, <4>2 DEF KeyHolds
    <3> QED BY <3>2, <3>4, <3>5 DEF KeyHolds
  <2> QED BY <1>1, <2>1, <2>2 DEF Query
<1>2. ASSUME UNCHANGED <<rows, unique>> PROVE KeyHolds'
  BY <1>2 DEF KeyHolds
<1>3. \/ UNCHANGED <<rows, unique>>
      \/ \E w \in Workers : Query(w)
  BY NextCases DEF Start, Crash, Request, Login, Test, Refuse, Lock, Insert, Unlock, vars
<1> QED BY <1>1, <1>2, <1>3

\* Rows are only added.
LEMMA RowsGrow ==
    ASSUME TypeOK, [Next]_vars
    PROVE  Range(rows) \subseteq Range(rows')
<1>1. ASSUME NEW w \in Workers, Query(w) PROVE Range(rows) \subseteq Range(rows')
  <2>1. rows' = rows \/ rows' = Append(rows, req[w])
    BY <1>1 DEF Query
  <2>2. rows \in Seq(Account) /\ req[w] \in Account
    BY DEF TypeOK
  <2> QED BY <2>1, <2>2, RowAppended
<1>2. rows' = rows \/ \E w \in Workers : Query(w)
  BY NextCases DEF Start, Crash, Request, Login, Test, Refuse, Lock, Insert, Unlock, vars
<1> QED BY <1>1, <1>2

\* insert() alone changes the map once the program runs, and it never changes a
\* password; what it adds in spite of a failed query is noted.
LEMMA MapGrows ==
    ASSUME TypeOK, [Next]_vars, up'
    PROVE  \/ Start
           \/ /\ up
              /\ spoilt \subseteq spoilt'
              /\ \A n \in Names : users[n] # Absent => users'[n] = users[n]
<1> USE DEF TypeOK, Goto
<1>1. ASSUME NEW w \in Workers, Insert(w)
      PROVE  \A n \in Names : users[n] # Absent => users'[n] = users[n]
  BY <1>1 DEF Insert
<1>2. ASSUME NEW w \in Workers, Insert(w) PROVE up /\ spoilt \subseteq spoilt'
  BY <1>2 DEF Insert
<1>3. \/ Start
      \/ UNCHANGED <<up, users, spoilt>>
      \/ \E w \in Workers : Insert(w)
  BY NextCases DEF Crash, Request, Login, Test, Refuse, Lock, Query, Unlock, vars
<1> QED BY <1>1, <1>2, <1>3

\* A worker whose INSERT succeeded has its row until it has told the client.
LEMMA RowAddedStep ==
    ASSUME IInv, [Next]_vars, TypeOK'
    PROVE  RowAdded'
<1> SUFFICES ASSUME NEW v \in Workers, pc'[v] \in {"insert", "unlock"}, ~res'[v]
             PROVE  /\ req'[v] \in Range(rows')
                    /\ pc'[v] = "unlock" => users'[Name(v)'] # Absent
                    /\ pc'[v] = "unlock" /\ unique' =>
                          users'[Name(v)'] = req'[v][2] \/ Name(v)' \in spoilt'
  BY DEF RowAdded
<1> USE DEF IInv
<1>1. Range(rows) \subseteq Range(rows')
  BY RowsGrow
<1>2. CASE Query(v)
  <2>1. rows' = Append(rows, req[v]) /\ pc'[v] = "insert" /\ req' = req
    BY <1>2 DEF Query, Goto, TypeOK
  <2>2. req[v] \in Range(rows')
    BY <2>1, RowAppended DEF TypeOK
  <2> QED BY <2>1, <2>2
<1>3. CASE Insert(v)
  <2>1. /\ pc[v] = "insert" /\ ~res[v] /\ req' = req /\ rows' = rows /\ unique' = unique
        /\ up /\ pc'[v] = "unlock"
    BY <1>3 DEF Insert, Goto, TypeOK
  <2>2. req[v] \in Range(rows) /\ req[v] \in Names \X Passwords
    BY <2>1 DEF RowAdded, TypeOK, Account
  <2>3. CASE users[Name(v)] = Absent
    <3>1. users'[Name(v)] = req[v][2]
      BY <1>3, <2>2, <2>3 DEF Insert, TypeOK, Name
    <3> QED BY <2>1, <2>2, <3>1, StoreAssumption DEF Name
  <2>4. CASE users[Name(v)] # Absent
    <3>1. users'[Name(v)] = users[Name(v)] /\ spoilt' = spoilt
      BY <1>3, <2>2, <2>4 DEF Insert, TypeOK, Name
    <3>2. <<Name(v), users[Name(v)]>> \in Range(rows) \/ Name(v) \in spoilt
      BY <2>1, <2>2, <2>4 DEF ToldIsStored, Name
    <3>3. ASSUME unique, <<Name(v), users[Name(v)]>> \in Range(rows)
          PROVE  users[Name(v)] = req[v][2]
      <4>1. PICK i \in DOMAIN rows : rows[i] = <<Name(v), users[Name(v)]>>
        BY <3>3 DEF Range
      <4>2. PICK j \in DOMAIN rows : rows[j] = req[v]
        BY <2>2 DEF Range
      <4>3. rows[i][1] = rows[j][1]
        BY <4>1, <4>2 DEF Name
      <4>4. i = j
        BY <3>3, <4>3 DEF KeyHolds
      <4> QED BY <4>1, <4>2, <4>4
    <3> QED BY <2>1, <2>2, <2>4, <3>1, <3>2, <3>3 DEF Name
  <2> QED BY <2>3, <2>4
<1>4. CASE ~Query(v) /\ ~Insert(v)
  <2>1. /\ pc[v] = pc'[v] /\ res[v] = res'[v] /\ req[v] = req'[v] /\ unique' = unique
        /\ up' /\ ~Start
    <3> USE DEF TypeOK, Goto, DownIsOut, InLock, workers
    <3>1. CASE Start
      BY <3>1 DEF Start
    <3>2. CASE Crash
      BY <3>2 DEF Crash
    <3>3. ASSUME NEW w \in Workers, NEW a \in Account, Request(w, a)
          PROVE  pc[v] = pc'[v] /\ res[v] = res'[v] /\ req[v] = req'[v] /\ unique' = unique /\ up' /\ up
      BY <3>3 DEF Request
    <3>4. ASSUME NEW w \in Workers, Login(w) \/ Test(w) \/ Refuse(w) \/ Lock(w) \/ Unlock(w)
          PROVE  pc[v] = pc'[v] /\ res[v] = res'[v] /\ req[v] = req'[v] /\ unique' = unique /\ up' /\ up
      BY <3>4 DEF Login, Test, Refuse, Lock, Unlock
    <3>5. ASSUME NEW w \in Workers, Query(w) \/ Insert(w)
          PROVE  pc[v] = pc'[v] /\ res[v] = res'[v] /\ req[v] = req'[v] /\ unique' = unique /\ up' /\ up
      BY <1>4, <3>5 DEF Query, Insert
    <3>6. ASSUME UNCHANGED vars
          PROVE  pc[v] = pc'[v] /\ res[v] = res'[v] /\ req[v] = req'[v] /\ unique' = unique /\ up' /\ up
      BY <3>6 DEF vars
    <3> QED BY <3>1, <3>2, <3>3, <3>4, <3>5, <3>6, NextCases DEF Start
  <2>2. Name(v) \in Names /\ Name(v)' = Name(v)
    BY <2>1 DEF Name, TypeOK, Account
  <2>3. spoilt \subseteq spoilt' /\ \A n \in Names : users[n] # Absent => users'[n] = users[n]
    BY <2>1, MapGrows
  <2> QED BY <1>1, <2>1, <2>2, <2>3 DEF RowAdded
<1> QED BY <1>2, <1>3, <1>4

\* Every step keeps what a client was told in the table.
LEMMA StoredStep ==
    ASSUME IInv, [Next]_vars, TypeOK'
    PROVE  ToldIsStored'
<1> USE DEF IInv
<1>1. Range(rows) \subseteq Range(rows')
  BY RowsGrow
<1>2. told' \subseteq Range(rows')
  <2>1. ASSUME NEW w \in Workers, Unlock(w) PROVE told' \subseteq Range(rows')
    <3>1. told' \subseteq told \cup (IF res[w] THEN {} ELSE {req[w]}) /\ pc[w] = "unlock"
      BY <2>1 DEF Unlock, Goto
    <3> QED BY <1>1, <3>1 DEF RowAdded, ToldIsStored
  <2>2. told' = told \/ \E w \in Workers : Unlock(w)
    BY NextCases DEF Start, Crash, Request, Login, Test, Refuse, Lock, Query, Insert, vars
  <2> QED BY <1>1, <2>1, <2>2 DEF ToldIsStored
<1>3. ASSUME NEW n \in Names, up', users'[n] # Absent
      PROVE  <<n, users'[n]>> \in Range(rows') \/ n \in spoilt'
  <2>1. CASE Start
    <3>1. users'[n] = Loaded(n) /\ rows' = rows
      BY <2>1 DEF Start
    <3> QED BY <1>3, <3>1, MapLoaded DEF TypeOK
  <2>2. ASSUME NEW w \in Workers, Insert(w), n = Name(w), users[n] = Absent
        PROVE  <<n, users'[n]>> \in Range(rows') \/ n \in spoilt'
    <3>1. req[w] \in Names \X Passwords /\ pc[w] = "insert"
      BY <2>2 DEF TypeOK, Account, Insert, Goto
    <3>2. users'[n] = req[w][2]
      BY <2>2, <3>1 DEF Insert, TypeOK, Name
    <3>3. req[w] = <<n, users'[n]>>
      BY <2>2, <3>1, <3>2 DEF Name
    <3>4. CASE res[w]
      BY <2>2, <3>4 DEF Insert
    <3>5. CASE ~res[w]
      BY <1>1, <3>1, <3>3, <3>5 DEF RowAdded
    <3> QED BY <3>4, <3>5
  <2>3. CASE ~Start /\ users'[n] = users[n]
    <3>1. up /\ spoilt \subseteq spoilt'
      BY <1>3, <2>3, MapGrows
    <3> QED BY <1>1, <1>3, <2>3, <3>1 DEF ToldIsStored
  <2>4. \/ Start \/ users'[n] = users[n]
        \/ \E w \in Workers : Insert(w) /\ n = Name(w) /\ users[n] = Absent
    <3>1. ASSUME NEW w \in Workers, Insert(w), users'[n] # users[n]
          PROVE  n = Name(w) /\ users[n] = Absent
      BY <3>1 DEF Insert, TypeOK
    <3> QED BY <3>1, NextCases DEF Crash, Request, Login, Test, Refuse, Lock, Query, Unlock, vars
  <2> QED BY <2>1, <2>2, <2>3, <2>4
<1> QED BY <1>2, <1>3 DEF ToldIsStored

\* No step gives a second client a name that is taken, where the key is unique.
LEMMA OwnerStep ==
    ASSUME IInv, [Next]_vars, TypeOK', KeyHolds', ToldIsStored'
    PROVE  OneOwner'
<1> SUFFICES ASSUME unique', NEW a \in told'
             PROVE  /\ \A b \in told' : a[1] = b[1] => a = b
                    /\ up' => users'[a[1]] = a[2] \/ a[1] \in spoilt'
  BY DEF OneOwner
<1> USE DEF IInv
<1>1. unique' = unique
  BY NextCases DEF Start, Crash, Request, Login, Test, Refuse, Lock, Query, Insert, Unlock, vars
<1>2. a \in Names \X Passwords
  BY DEF TypeOK, Account
<1>3. ASSUME NEW b \in told', a[1] = b[1] PROVE a = b
  <2>1. PICK i \in DOMAIN rows' : rows'[i] = a
    BY DEF ToldIsStored, Range
  <2>2. PICK j \in DOMAIN rows' : rows'[j] = b
    BY DEF ToldIsStored, Range
  <2> QED BY <1>3, <2>1, <2>2 DEF KeyHolds
<1>4. ASSUME up' PROVE users'[a[1]] = a[2] \/ a[1] \in spoilt'
  <2>1. CASE Start
    <3>1. a \in Range(rows) /\ a = <<a[1], a[2]>> /\ a[1] \in Names /\ a[2] \in Passwords
      BY <1>2, <2>1 DEF ToldIsStored, Start
    <3>2. Loaded(a[1]) = a[2]
      <4>1. rows \in Seq(Account) /\ KeyHolds /\ unique
        BY <1>1 DEF TypeOK
      <4>2. <<a[1], a[2]>> \in Range(rows)
        BY <3>1
      <4> QED BY <3>1, <4>1, <4>2, MapLoaded
    <3> QED BY <2>1, <3>1, <3>2 DEF Start
  <2>2. CASE ~Start
    <3>1. /\ up /\ spoilt \subseteq spoilt'
          /\ users[a[1]] # Absent => users'[a[1]] = users[a[1]]
      BY <1>2, <1>4, <2>2, MapGrows
    <3>2. CASE a \in told
      <4>1. users[a[1]] = a[2] \/ a[1] \in spoilt
        BY <1>1, <3>1, <3>2 DEF OneOwner
      <4> QED BY <1>2, <3>1, <4>1, StoreAssumption
    <3>3. CASE a \notin told
      <4>1. PICK w \in Workers : Unlock(w)
        BY <2>2, <3>3, NextCases DEF Crash, Request, Login, Test, Refuse, Lock, Query, Insert, vars
      <4>2. a = req[w] /\ ~res[w] /\ pc[w] = "unlock" /\ users' = users
        BY <3>3, <4>1 DEF Unlock, Goto
      <4> QED BY <1>1, <3>1, <4>2 DEF RowAdded, Name
    <3> QED BY <3>2, <3>3
  <2> QED BY <2>1, <2>2
<1> QED BY <1>3, <1>4

-----------------------------------------------------------------------------
(* The theorems                                                            *)

\* The inductive invariant holds of every behaviour.
LEMMA Invariant == Spec => []IInv
<1>1. IInv /\ [Next]_vars => IInv'
  BY TypeStep, DownStep, KeyStep, RowAddedStep, StoredStep, OwnerStep DEF IInv
<1>2. QED
  BY InvInit, <1>1, PTL DEF Spec

\* Every variable keeps its type, and m_lock belongs to the one worker that is inside the
\* critical section of the registration.
THEOREM TypeCorrect == Spec => []TypeOK
<1>1. IInv => TypeOK
  BY DEF IInv
<1>2. QED
  BY Invariant, <1>1, PTL

\* A registration do_request() answered with success is in the database through every
\* crash and restart, and the map accepts no login the database does not know unless a
\* query failed.
THEOREM NoAccountForgotten == Spec => []ToldIsStored
<1>1. IInv => ToldIsStored
  BY DEF IInv
<1>2. QED
  BY Invariant, <1>1, PTL

\* With a key on the name no two clients are told that a name is theirs, although
\* do_request() looks it up without the lock.
THEOREM NamesHaveOneOwner == Spec => []OneOwner
<1>1. IInv => OneOwner
  BY DEF IInv
<1>2. QED
  BY Invariant, <1>1, PTL
=============================================================================
