----------------------------- MODULE UserStore -----------------------------
(***************************************************************************)
(* Login and registration in do_request(): workers share the map "users",  *)
(* which main() loads from the database when the program starts, and add   *)
(* to both under m_lock.  They look into the map without the lock.  The    *)
(* program may crash and be started again: the map is lost, the rows are   *)
(* not.                                                                    *)
(*                                                                         *)
(* The query goes through the member "mysql" of http_conn, which nothing   *)
(* sets; what a query through it does is left open: it crashes, reports an *)
(* error - having added the row or not - or succeeds.                      *)
(***************************************************************************)
EXTENDS Integers, Sequences, FiniteSets, Functions

CONSTANTS Workers, Names, Passwords,
          MaxRequests,  \* bound: requests of all clients
          MaxStarts,    \* bound: how often the program is started
          Absent, Nobody

ASSUME StoreAssumption ==
    /\ IsFiniteSet(Workers) /\ Names # {} /\ Passwords # {}
    /\ MaxRequests \in Nat /\ MaxStarts \in Nat
    /\ Absent \notin Passwords
    /\ Nobody \notin Workers

VARIABLES up, starts,
          users,        \* the map
          rows,         \* table "user", in the order of its rows
          unique,       \* whether the table has a key on username
          holder,       \* who holds m_lock
          pc, req, res, \* each worker: place, <<name, password>>, mysql_query() failed
          asked,        \* number of requests
          told,         \* history: registrations answered with index.html
          spoilt        \* history: names the map got without their row, since the start

workers == <<pc, req, res, asked>>
vars == <<up, starts, users, rows, unique, holder, workers, told, spoilt>>

Account == Names \X Passwords
InLock == {"query", "insert", "unlock"}

TypeOK ==
    /\ up \in BOOLEAN /\ starts \in 0..MaxStarts /\ asked \in 0..MaxRequests
    /\ users \in [Names -> Passwords \cup {Absent}]
    /\ rows \in Seq(Account) /\ unique \in BOOLEAN
    /\ pc \in [Workers -> {"out", "login", "test", "lock", "refuse"} \cup InLock]
    /\ req \in [Workers -> Account]
    /\ res \in [Workers -> BOOLEAN]
    /\ told \subseteq Account /\ spoilt \subseteq Names
    /\ holder \in Workers \cup {Nobody}
    /\ \A w \in Workers : pc[w] \in InLock <=> holder = w

Init ==
    /\ up = FALSE /\ starts = 0
    /\ users = [n \in Names |-> Absent]
    /\ rows = <<>> /\ unique \in BOOLEAN
    /\ holder = Nobody
    /\ pc = [w \in Workers |-> "out"]
    /\ req = [w \in Workers |-> CHOOSE a \in Account : TRUE]
    /\ res = [w \in Workers |-> FALSE]
    /\ asked = 0 /\ told = {} /\ spoilt = {}

-----------------------------------------------------------------------------
(* The program starts and crashes                                          *)

RowsOf(n) == {i \in DOMAIN rows : rows[i][1] = n}

\* The password of the last row of n, which is what the loop over the result leaves.
Loaded(n) ==
    IF RowsOf(n) = {} THEN Absent
    ELSE rows[CHOOSE i \in RowsOf(n) : \A j \in RowsOf(n) : j <= i][2]

\* initmysql_result(); no other thread runs yet, so that the connection pool, whose only
\* caller it is, always has a connection for it and is left out.
Start ==
    /\ ~up
    /\ starts < MaxStarts
    /\ up' = TRUE /\ starts' = starts + 1
    /\ users' = [n \in Names |-> Loaded(n)]
    /\ spoilt' = {}
    /\ UNCHANGED <<rows, unique, holder, workers, told>>

Crash ==
    /\ up
    /\ up' = FALSE
    /\ holder' = Nobody
    /\ pc' = [w \in Workers |-> "out"]
    /\ UNCHANGED <<starts, users, rows, unique, req, res, asked, told, spoilt>>

-----------------------------------------------------------------------------
(* do_request(), by a worker                                               *)

Goto(w, from, to) == up /\ pc[w] = from /\ pc' = [pc EXCEPT ![w] = to]

Request(w, a) ==
    /\ asked < MaxRequests
    /\ asked' = asked + 1
    /\ \E page \in {"login", "test"} : Goto(w, "out", page)
    /\ req' = [req EXCEPT ![w] = a]
    /\ UNCHANGED <<up, starts, users, rows, unique, holder, res, told, spoilt>>

Name(w) == req[w][1]

\* Another worker is linking a new node into the map.
Racing(w) == \E v \in Workers \ {w} : pc[v] = "insert" /\ users[Name(v)] = Absent

\* What users.find() says; anything in a race.
Found(w) == IF Racing(w) THEN BOOLEAN ELSE {users[Name(w)] # Absent}

\* Either page is sent; nothing changes.
Login(w) ==
    /\ Goto(w, "login", "out")
    /\ UNCHANGED <<up, starts, users, rows, unique, holder, req, res, asked, told, spoilt>>

Test(w) ==
    /\ \E found \in Found(w) : Goto(w, "test", IF found THEN "refuse" ELSE "lock")
    /\ UNCHANGED <<up, starts, users, rows, unique, holder, req, res, asked, told, spoilt>>

\* regerror.html
Refuse(w) ==
    /\ Goto(w, "refuse", "out")
    /\ UNCHANGED <<up, starts, users, rows, unique, holder, req, res, asked, told, spoilt>>

\* mutant: no mutual exclusion.
LockAnyway(w) ==
    /\ Goto(w, "lock", "query")
    /\ holder' = w
    /\ UNCHANGED <<up, starts, users, rows, unique, req, res, asked, told, spoilt>>

Lock(w) ==
    /\ Goto(w, "lock", "query")
    /\ holder = Nobody
    /\ holder' = w
    /\ UNCHANGED <<up, starts, users, rows, unique, req, res, asked, told, spoilt>>

Query(w) ==
    /\ Goto(w, "query", "insert")
    /\ res' \in {[res EXCEPT ![w] = failed] : failed \in BOOLEAN}
    /\ \/ /\ unique => RowsOf(Name(w)) = {}
          /\ rows' = Append(rows, req[w])
       \/ res'[w] /\ UNCHANGED rows
    /\ UNCHANGED <<up, starts, users, unique, holder, req, asked, told, spoilt>>

\* mutant: users[name] = password
InsertOver(w) ==
    /\ Goto(w, "insert", "unlock")
    /\ users' = [users EXCEPT ![Name(w)] = req[w][2]]
    /\ spoilt' = IF users[Name(w)] = Absent /\ res[w] THEN spoilt \cup {Name(w)} ELSE spoilt
    /\ UNCHANGED <<up, starts, rows, unique, holder, req, res, asked, told>>

\* users.insert(), which leaves a name that is there alone; whatever the query said.
Insert(w) ==
    /\ Goto(w, "insert", "unlock")
    /\ users' = [users EXCEPT ![Name(w)] = IF @ = Absent THEN req[w][2] ELSE @]
    /\ spoilt' = IF users[Name(w)] = Absent /\ res[w] THEN spoilt \cup {Name(w)} ELSE spoilt
    /\ UNCHANGED <<up, starts, rows, unique, holder, req, res, asked, told>>

\* mutants: the lock stays when the query failed; success is answered at any rate.
UnlockIfDone(w) ==
    /\ Goto(w, "unlock", "out")
    /\ IF res[w] THEN UNCHANGED holder ELSE holder' = Nobody
    /\ told' = IF res[w] THEN told ELSE told \cup {req[w]}
    /\ UNCHANGED <<up, starts, users, rows, unique, req, res, asked, spoilt>>

UnlockAndPraise(w) ==
    /\ Goto(w, "unlock", "out")
    /\ holder' = Nobody
    /\ told' = told \cup {req[w]}
    /\ UNCHANGED <<up, starts, users, rows, unique, req, res, asked, spoilt>>

Unlock(w) ==
    /\ Goto(w, "unlock", "out")
    /\ holder' = Nobody
    /\ told' = IF res[w] THEN told ELSE told \cup {req[w]}
    /\ UNCHANGED <<up, starts, users, rows, unique, req, res, asked, spoilt>>

-----------------------------------------------------------------------------
DoRequest(w) ==
    Login(w) \/ Test(w) \/ Refuse(w) \/ Lock(w) \/ Query(w) \/ Insert(w) \/ Unlock(w)

Next ==
    \/ Start \/ Crash
    \/ \E w \in Workers : DoRequest(w) \/ \E a \in Account : Request(w, a)

Spec == Init /\ [][Next]_vars

\* The workers run, and whoever waits for the mutex gets it if it is free again and
\* again.  Nobody has to ask or to start the program.
FairSpec == Spec /\ \A w \in Workers : WF_vars(DoRequest(w)) /\ SF_vars(Lock(w))

-----------------------------------------------------------------------------
(* Properties                                                              *)

\* A registration that was answered with success is in the database, whatever other
\* workers do meanwhile and however often the program crashes; and the map accepts
\* no login the database does not know, unless a failed query put it there
\* (http_conn.cpp:359), which lasts until the next start.
ToldIsStored ==
    /\ told \subseteq Range(rows)
    /\ up => \A n \in Names :
        users[n] # Absent => <<n, users[n]>> \in Range(rows) \/ n \in spoilt

\* With a key on the name, two clients are never both told that a name is theirs,
\* although the test for it is made outside the lock; and the map has the password of
\* the one that was told, unless a failed query put another there before.
OneOwner ==
    unique => \A a, b \in told :
        /\ a[1] = b[1] => a = b
        /\ up => users[a[1]] = a[2] \/ a[1] \in spoilt

\* Who asks is answered, unless the program crashes: m_lock is always given back.
RequestsAnswered == \A w \in Workers : pc[w] # "out" ~> (pc[w] = "out" \/ ~up)
=============================================================================
