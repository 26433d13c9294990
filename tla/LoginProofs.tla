----------------------------- MODULE LoginProofs -----------------------------
(***************************************************************************)
(* What holds of a login for all files, directories, paths and variables,  *)
(* and whatever others do to the names between two system calls.           *)
(*                                                                         *)
(* A key is accepted only from a file that was checked, since each of the  *)
(* child's steps leaves behind what it has checked (Vetted), and since a   *)
(* path whose directories pass the last check was never open to others     *)
(* (the one conjunct of Vetted that is an implication: before that check   *)
(* the path may have been redirected). A listed key is found because the   *)
(* child, undisturbed, holds the file that the name leads to and has seen  *)
(* neither the key nor an end so far (Straight).                           *)
(*                                                                         *)
(* The shell's part rests on the lemmas about tables, which come first.    *)
(***************************************************************************)
EXTENDS Login, SequenceTheorems, TLAPS

-----------------------------------------------------------------------------
(* What the functions of newenv.c do to any table, for every size of the
   array and of the buffer. A table that is sound (TableSound) stays so, since
   what is listed is what lies before elen (ListedBelow), and a call changes
   what the table says of the one variable it names: the variable has the new
   value if the call succeeds, and is gone if it is refused. *)

(* The type of struct newenv, for a table in use. *)
Table(t) ==
  /\ DOMAIN t.e = Slots /\ t.elen \in Nat /\ t.eslen \in Nat
  /\ TableSound(t)

(* What is listed under other names than s. *)
Others(t, s) == {x \in newenv_exec(t) : x.name # s}

-----------------------------------------------------------------------------
(* The constants, as numbers. *)
LEMMA EnvConstants ==
  EnvLen \in Nat /\ EnvLen > 1 /\ EnvSpace \in Nat /\ \A v : Cost(v) \in Nat
  BY NewEnvAssumption DEF Cost

(* A client's share of them is not larger. *)
LEMMA EnvShares ==
  \A x \in {1, 2} : /\ EnvLen \div x \in Nat /\ EnvLen \div x <= EnvLen
                    /\ EnvSpace \div x \in Nat /\ EnvSpace \div x <= EnvSpace
  BY EnvConstants

(* The entries before elen are the listed ones: the first NULL is at elen. *)
LEMMA ListedBelow ==
  ASSUME NEW t, Table(t)
  PROVE  /\ Listed(t) = {i \in Slots : i < t.elen}
         /\ t.elen \in Slots
         /\ \A i \in Slots : i < t.elen <=> t.e[i] # None
<1> USE EnvConstants DEF Slots
<1>1. t.elen \in Slots /\ \A i \in Slots : t.e[i] = None <=> i >= t.elen
  BY DEF Table, TableSound
<1>2. t.elen \in Nat
  BY DEF Table
<1>3. \A i \in Slots : i < t.elen <=> t.e[i] # None
  BY <1>1, <1>2
<1>4. \A i \in Slots : (\A j \in 0..i : t.e[j] # None) <=> i < t.elen
  <2> TAKE i \in Slots
  <2>1. CASE i < t.elen
    <3>1. \A j \in 0..i : j \in Slots /\ j < t.elen
      BY <1>2, <2>1
    <3> QED
      BY <1>3, <2>1, <3>1
  <2>2. CASE ~(i < t.elen)
    <3>1. i \in 0..i /\ t.e[i] = None
      BY <1>3, <2>2
    <3> QED
      BY <2>2, <3>1
  <2> QED
    BY <2>1, <2>2
<1> QED
  BY <1>1, <1>3, <1>4 DEF Listed

(* The empty table. *)
LEMMA InitTable == Table(newenv_init) /\ newenv_exec(newenv_init) = {}
<1> USE EnvConstants DEF Slots
<1>1. DOMAIN newenv_init.e = Slots
  BY DEF newenv_init
<1>2. newenv_init.elen = 0 /\ newenv_init.eslen = 0 /\ \A i \in Slots : newenv_init.e[i] = None
  BY DEF newenv_init
<1>3. Listed(newenv_init) = {}
  BY <1>2 DEF Listed
<1>4. TableSound(newenv_init)
  BY <1>2, <1>3 DEF TableSound
<1> QED
  BY <1>1, <1>2, <1>3, <1>4 DEF Table, newenv_exec
(* r is t with the last entry moved to h, and its own place free. *)
Moved(t, r, h, last) ==
  /\ last \in Nat /\ t.elen = last + 1
  /\ DOMAIN r.e = Slots /\ r.elen = last /\ r.eslen = t.eslen /\ r.e[last] = None
  /\ \A i \in Slots \ {last} : r.e[i] = IF i = h THEN t.e[last] ELSE t.e[i]

(* Such a table is sound, and has lost the entry at h alone. *)
LEMMA MovedTable ==
  ASSUME NEW t, Table(t), NEW h \in Listed(t), NEW r, NEW last, Moved(t, r, h, last)
  PROVE  /\ Table(r)
         /\ newenv_exec(r) = {t.e[i] : i \in Listed(t) \ {h}}
<1> USE EnvConstants DEF Slots, Moved
<1>1. /\ Listed(t) = {i \in Slots : i < t.elen} /\ t.elen \in Slots
      /\ \A i \in Slots : i < t.elen <=> t.e[i] # None
  BY ListedBelow
<1>2. /\ t.eslen \in Nat /\ t.eslen <= EnvSpace
      /\ \A i, j \in Listed(t) : t.e[i].name = t.e[j].name => i = j
  BY DEF Table, TableSound
<1>3. /\ h \in Slots /\ h <= last /\ last \in Slots /\ last < EnvLen
      /\ Listed(t) = {i \in Slots : i <= last}
  BY <1>1
<1>4. \A i \in Slots : r.e[i] = None <=> i >= last
  <2> TAKE i \in Slots
  <2>1. CASE i = last
    BY <2>1
  <2>2. CASE i = h /\ h # last
    <3>1. r.e[i] = t.e[last] /\ t.e[last] # None /\ ~(i >= last)
      BY <1>1, <1>3, <2>2
    <3> QED
      BY <3>1
  <2>3. CASE i # h /\ i # last
    <3>1. r.e[i] = t.e[i] /\ (t.e[i] # None <=> i < last)
      BY <1>1, <1>3, <2>3
    <3> QED
      BY <1>3, <3>1
  <2> QED
    BY <2>1, <2>2, <2>3
<1>5. Listed(r) = {i \in Slots : i < last}
  <2>1. \A i \in Slots : (\A j \in 0..i : r.e[j] # None) <=> i < last
    <3> TAKE i \in Slots
    <3>1. CASE i < last
      <4>1. \A j \in 0..i : j \in Slots /\ ~(j >= last)
        BY <1>3, <3>1
      <4> QED
        BY <1>4, <3>1, <4>1
    <3>2. CASE ~(i < last)
      <4>1. i \in 0..i /\ r.e[i] = None
        BY <1>3, <1>4, <3>2
      <4> QED
        BY <3>2, <4>1
    <3> QED
      BY <3>1, <3>2
  <2> QED
    BY <2>1 DEF Listed
<1> DEFINE from(i) == IF i = h THEN last ELSE i
<1>6. \A i \in Listed(r) : /\ from(i) \in Listed(t) /\ from(i) # h
                           /\ r.e[i] = t.e[from(i)] /\ i # last
  BY <1>3, <1>5
<1>7. \A i, j \in Listed(r) : r.e[i].name = r.e[j].name => i = j
  <2> SUFFICES ASSUME NEW i \in Listed(r), NEW j \in Listed(r), r.e[i].name = r.e[j].name
               PROVE  i = j
    OBVIOUS
  <2>1. from(i) = from(j)
    <3> HIDE DEF from
    <3> QED
      BY <1>2, <1>6
  <2> QED
    BY <1>6, <2>1
<1>8. Table(r)
  <2>1. r.elen < EnvLen /\ r.eslen <= EnvSpace /\ r.elen \in Nat /\ r.eslen \in Nat
    BY <1>2, <1>3
  <2> QED
    BY <1>4, <1>7, <2>1 DEF Table, TableSound
<1>9. newenv_exec(r) = {t.e[i] : i \in Listed(t) \ {h}}
  <2>1. ASSUME NEW k \in Listed(t) \ {h} PROVE \E i \in Listed(r) : r.e[i] = t.e[k]
    <3>1. CASE k = last
      <4>1. h \in Listed(r) /\ r.e[h] = t.e[k]
        BY <1>3, <1>5, <2>1, <3>1
      <4> QED
        BY <4>1
    <3>2. CASE k # last
      <4>1. k \in Listed(r) /\ r.e[k] = t.e[k]
        BY <1>3, <1>5, <2>1, <3>2
      <4> QED
        BY <4>1
    <3> QED
      BY <3>1, <3>2
  <2>2. ASSUME NEW i \in Listed(r) PROVE \E k \in Listed(t) \ {h} : r.e[i] = t.e[k]
    BY <1>6
  <2> QED
    BY <2>1, <2>2 DEF newenv_exec
<1> QED
  BY <1>8, <1>9

(* Removing a name keeps the table sound and every other entry (newenv.c:71). *)
LEMMA RemovedTable ==
  ASSUME NEW t, Table(t), NEW s
  PROVE  /\ Table(Removed(t, s))
         /\ newenv_exec(Removed(t, s)) = Others(t, s)
<1> DEFINE hits == {i \in Listed(t) : t.e[i].name = s}
           last == t.elen - 1
<1>1. CASE hits = {}
  <2>1. Removed(t, s) = t
    BY <1>1 DEF Removed
  <2>2. newenv_exec(t) = Others(t, s)
    BY <1>1 DEF newenv_exec, Others
  <2> QED
    BY <2>1, <2>2
<1>2. CASE hits # {}
  <2>1. PICK h : h \in hits
    BY <1>2
  <2>2. hits = {h}
    BY <2>1 DEF Table, TableSound
  <2>3. Min(hits) = h
    <3>1. h \in Slots
      BY <2>1 DEF Listed
    <3>2. h <= h
      BY <3>1, EnvConstants DEF Slots
    <3> HIDE DEF hits
    <3> QED
      BY <2>2, <3>2 DEF Min
  <2>4. Removed(t, s) = [e |-> [[t.e EXCEPT ![h] = t.e[last]] EXCEPT ![last] = None],
                         elen |-> last, eslen |-> t.eslen]
    BY <1>2, <2>3 DEF Removed
  <2>5. /\ Table(Removed(t, s))
        /\ newenv_exec(Removed(t, s)) = {t.e[i] : i \in Listed(t) \ {h}}
    <3> DEFINE r == Removed(t, s)
    <3>1. DOMAIN t.e = Slots /\ h \in Slots /\ last \in Slots /\ last \in Nat /\ t.elen = last + 1
      BY <2>1, ListedBelow, EnvConstants DEF Table, Slots
    <3>2. Moved(t, r, h, last)
      BY <2>4, <3>1 DEF Moved
    <3>3. h \in Listed(t)
      BY <2>1
    <3> HIDE DEF r, last, hits
    <3>4. Table(r) /\ newenv_exec(r) = {t.e[i] : i \in Listed(t) \ {h}}
      BY <3>2, <3>3, MovedTable
    <3> QED
      BY <3>4 DEF r
  <2>6. {t.e[i] : i \in Listed(t) \ {h}} = Others(t, s)
    BY <2>2 DEF newenv_exec, Others
  <2> QED
    BY <2>5, <2>6
<1> QED
  BY <1>1, <1>2
(* r is t with the entry x behind its last and a NULL behind that. *)
Added(t, r, x, c) ==
  /\ DOMAIN r.e = Slots /\ r.elen = t.elen + 1 /\ r.eslen = t.eslen + c
  /\ r.elen < EnvLen /\ r.eslen <= EnvSpace /\ c \in Nat
  /\ r.e[t.elen] = x /\ r.e[t.elen + 1] = None
  /\ \A i \in Slots \ {t.elen, t.elen + 1} : r.e[i] = t.e[i]

(* Such a table is sound if the name is new, and lists the entry besides. *)
LEMMA AddedTable ==
  ASSUME NEW t, Table(t), NEW r, NEW x, NEW c, Added(t, r, x, c), x # None,
         \A y \in newenv_exec(t) : y.name # x.name
  PROVE  Table(r) /\ newenv_exec(r) = newenv_exec(t) \cup {x}
<1> USE EnvConstants DEF Slots, Added
<1>1. /\ Listed(t) = {i \in Slots : i < t.elen} /\ t.elen \in Slots
      /\ \A i \in Slots : i < t.elen <=> t.e[i] # None
  BY ListedBelow
<1>2. /\ t.elen \in Nat /\ t.eslen \in Nat
      /\ \A i, j \in Listed(t) : t.e[i].name = t.e[j].name => i = j
  BY DEF Table, TableSound
<1>3. \A i \in Slots : r.e[i] = None <=> i >= r.elen
  <2> TAKE i \in Slots
  <2>1. CASE i = t.elen \/ i = t.elen + 1
    BY <1>2, <2>1
  <2>2. CASE i # t.elen /\ i # t.elen + 1
    <3>1. r.e[i] = t.e[i] /\ (i < t.elen <=> t.e[i] # None)
      BY <1>1, <2>2
    <3> QED
      BY <1>2, <2>2, <3>1
  <2> QED
    BY <2>1, <2>2
<1>4. Listed(r) = Listed(t) \cup {t.elen}
  <2>1. \A i \in Slots : (\A j \in 0..i : r.e[j] # None) <=> i < r.elen
    <3> TAKE i \in Slots
    <3>1. CASE i < r.elen
      <4>1. \A j \in 0..i : j \in Slots /\ ~(j >= r.elen)
        BY <1>2, <3>1
      <4> QED
        BY <1>3, <3>1, <4>1
    <3>2. CASE ~(i < r.elen)
      <4>1. i \in 0..i /\ r.e[i] = None
        BY <1>2, <1>3, <3>2
      <4> QED
        BY <3>2, <4>1
    <3> QED
      BY <3>1, <3>2
  <2>2. Listed(r) = {i \in Slots : i < r.elen}
    BY <2>1 DEF Listed
  <2> QED
    BY <1>1, <1>2, <2>2
<1>5. /\ \A i \in Listed(t) : r.e[i] = t.e[i] /\ t.e[i] \in newenv_exec(t)
      /\ r.e[t.elen] = x
  <2>1. \A i \in Listed(t) : i \in Slots \ {t.elen, t.elen + 1}
    BY <1>1, <1>2
  <2> QED
    BY <2>1 DEF newenv_exec
<1>6. \A i, j \in Listed(r) : r.e[i].name = r.e[j].name => i = j
  BY <1>2, <1>4, <1>5
<1>7. Table(r)
  BY <1>2, <1>3, <1>6 DEF Table, TableSound
<1>8. newenv_exec(r) = newenv_exec(t) \cup {x}
  BY <1>4, <1>5 DEF newenv_exec
<1> QED
  BY <1>7, <1>8

(* A table with nothing in front of its NULL lists nothing. *)
LEMMA EmptyTable ==
  ASSUME NEW t, Table(t), t.elen = 0
  PROVE  newenv_exec(t) = {}
<1>1. \A i \in Slots : ~(i < t.elen)
  BY EnvConstants DEF Slots
<1> QED
  BY <1>1, ListedBelow DEF newenv_exec

(* The two assignments of newenv_env_ stay within the array. *)
LEMMA FitsAdded ==
  ASSUME NEW t, Table(t), NEW x, NEW c \in Nat, NEW len \in Nat, NEW space \in Nat,
         len <= EnvLen, space <= EnvSpace, t.elen + 2 <= len, t.eslen + c <= space
  PROVE  Added(t, [e |-> [[t.e EXCEPT ![t.elen] = x] EXCEPT ![t.elen + 1] = None],
                   elen |-> t.elen + 1, eslen |-> t.eslen + c], x, c)
<1> USE EnvConstants
<1>1. DOMAIN t.e = Slots /\ t.elen \in Nat /\ t.eslen \in Nat
  BY DEF Table
<1>2. t.elen + 2 <= EnvLen /\ t.eslen + c <= EnvSpace
  BY <1>1
<1>3. t.elen \in Slots /\ t.elen + 1 \in Slots
  BY <1>1, <1>2 DEF Slots
<1> QED
  BY <1>1, <1>2, <1>3 DEF Added

(* What a call does to the table and to what execve will see of it: the
   variable it names has the new value, or, if it does not fit, is gone; every
   other variable is as before (newenv.c:60). *)
Updated(t, r, s, v) ==
  /\ Table(r.env)
  /\ r.ok \in BOOLEAN
  /\ r.ok => newenv_exec(r.env) = Others(t, s) \cup {Entry(s, v)}
  /\ ~r.ok => newenv_exec(r.env) = Others(t, s)

(* newenv_env_, for the server's own variables and for a client's. *)
LEMMA UpdatedTable ==
  ASSUME NEW x \in {1, 2}, NEW t, Table(t), NEW s, s # "", NEW v
  PROVE  Updated(t, newenv_env_(x, t, s, v), s, v)
<1> DEFINE u == IF t.elen = 0 THEN newenv_init ELSE t
           r == Removed(u, s)
           len == EnvLen \div x
           space == EnvSpace \div x
           fits == r.elen + 2 <= len /\ r.eslen + Cost(v) <= space
           more == [e |-> [[r.e EXCEPT ![r.elen] = Entry(s, v)] EXCEPT ![r.elen + 1] = None],
                    elen |-> r.elen + 1, eslen |-> r.eslen + Cost(v)]
           call == newenv_env_(x, t, s, v)
<1>1. Table(u) /\ newenv_exec(u) = newenv_exec(t)
  <2>1. CASE t.elen = 0
    BY <2>1, EmptyTable, InitTable
  <2>2. CASE t.elen # 0
    BY <2>2
  <2> QED
    BY <2>1, <2>2
<1>2. Table(r) /\ newenv_exec(r) = Others(t, s)
  <2> HIDE DEF u
  <2> QED
    BY <1>1, RemovedTable DEF Others
<1>3. call = [ok |-> fits, env |-> IF fits THEN more ELSE r]
  BY DEF newenv_env_
<1>4. len \in Nat /\ len <= EnvLen /\ space \in Nat /\ space <= EnvSpace
  BY EnvShares
<1> HIDE DEF r, len, space, call
<1>5. (call.ok <=> fits) /\ call.env = (IF fits THEN more ELSE r) /\ call.ok \in BOOLEAN
  <2> HIDE DEF more
  <2> QED
    BY <1>3
<1>6. CASE fits
  <2>1. Added(r, more, Entry(s, v), Cost(v))
    BY <1>2, <1>4, <1>6, EnvConstants, FitsAdded
  <2>2. Entry(s, v) # None /\ \A y \in newenv_exec(r) : y.name # Entry(s, v).name
    BY <1>2 DEF Entry, None, Others
  <2> HIDE DEF more, fits
  <2>3. Table(more) /\ newenv_exec(more) = newenv_exec(r) \cup {Entry(s, v)}
    BY <1>2, <2>1, <2>2, AddedTable
  <2>4. Updated(t, call, s, v)
    BY <1>2, <1>5, <1>6, <2>3 DEF Updated
  <2> QED
    BY <2>4 DEF call
<1>7. CASE ~fits
  <2> HIDE DEF fits
  <2>1. Updated(t, call, s, v)
    BY <1>2, <1>5, <1>7 DEF Updated
  <2> QED
    BY <2>1 DEF call
<1> QED
  BY <1>6, <1>7

-----------------------------------------------------------------------------
(* The child that decides about the key, and the login around it. *)

Success == apc = "exited" /\ status = 0

Setting ==
  /\ at \in [DOMAIN Above -> DOMAIN Files] /\ target \in DOMAIN Above
  /\ server \in Processes /\ passwd \in getpwnam
  /\ auth \in {"idle", "waiting", "granted", "refused"} /\ status \in {0, 111}
  /\ apc \in {"none", "start", "open", "fstat", "realpath", "stat", "check", "getln",
              "exited", "killed"}
  /\ auth = "idle" => apc = "none"
  /\ apc \notin {"none", "exited", "killed"} => auth = "waiting"
  /\ apc = "start" => prober = server

Acts == \E pw \in passwd : ActsFor(prober, pw, server)

(* How far the child has come, and what it has made sure of there. *)
Vetted ==
  /\ Success \/ apc \in {"open", "fstat", "realpath", "stat", "check", "getln"} => Acts
  /\ Success \/ apc \in {"fstat", "realpath", "stat", "check", "getln"} => fd \in DOMAIN Files
  /\ Success \/ apc \in {"realpath", "stat", "check", "getln"} => SafeFile(fd)
  /\ Success \/ apc \in {"stat", "check", "getln"} => path \in DOMAIN Above
  /\ (Success \/ apc \in {"check", "getln"}) /\ SafePath(path) => at[path] = fd
  /\ Success \/ apc = "getln" => SafePath(path)

Searched ==
  /\ apc \notin {"getln", "exited", "killed"} => line = 0
  /\ apc = "getln" => /\ line \in Nat /\ line < Len(Files[fd].lines)
                      /\ \A j \in 1..line : Files[fd].lines[j] \notin {"long", "key"}
  /\ Success => Lists(fd)

Undisturbed == \A p \in DOMAIN Above : SafePath(p)

Straight ==
  Undisturbed =>
    /\ apc \in {"fstat", "realpath", "stat", "check", "getln"} => fd = at[target]
    /\ apc \in {"stat", "check", "getln"} => path = target
    /\ apc = "exited" /\ status = 111 /\ ~failed => ~(Lists(at[target]) /\ SafeFile(at[target]))

Decided ==
  /\ apc = "killed" => failed
  /\ auth = "granted" => Success
  /\ auth = "refused" => failed \/ (apc = "exited" /\ status = 111)

AuthInv == Setting /\ Vetted /\ Searched /\ Straight /\ Decided
-----------------------------------------------------------------------------
(* dropuidgid gives a process with the account's identity, and with its
   groups if the server could set them, whatever the kernel refuses or only
   pretends to do (dropuidgid.c). *)
LEMMA Dropped ==
  ASSUME NEW p \in Processes, NEW pw, NEW r \in dropuidgid(p, pw)
  PROVE  ActsFor(r, pw, p)
<1>1. PICK u : p = [euid |-> u, uid |-> u, gid |-> "any", groups |-> {"any"}]
  BY DEF Processes
<1>2. PICK q \in InGroup(p, pw) :
        r \in IF q.euid = pw.uid THEN {q} ELSE {x \in setuid(q, pw.uid) : x.uid = pw.uid}
  BY DEF dropuidgid
<1>3. /\ q.euid = p.euid /\ q.uid = p.euid
      /\ p.euid = Root => q.gid = pw.gid /\ q.groups = pw.groups
      /\ q = [euid |-> q.euid, uid |-> q.uid, gid |-> q.gid, groups |-> q.groups]
  <2>1. CASE p.euid # Root
    BY <1>1, <1>2, <2>1 DEF InGroup
  <2>2. CASE p.euid = Root
    <3>1. PICK x \in {p, [p EXCEPT !.gid = pw.gid]} :
            x.gid = pw.gid /\ q = [x EXCEPT !.groups = pw.groups]
      BY <1>2, <2>2 DEF InGroup, setgid
    <3>2. [p EXCEPT !.gid = pw.gid] = [euid |-> u, uid |-> u, gid |-> pw.gid, groups |-> {"any"}]
      BY <1>1
    <3>3. x = [euid |-> u, uid |-> u, gid |-> pw.gid, groups |-> {"any"}]
      BY <1>1, <3>1, <3>2
    <3>4. q = [euid |-> u, uid |-> u, gid |-> pw.gid, groups |-> pw.groups]
      BY <3>1, <3>3
    <3> QED
      BY <1>1, <3>4
  <2> QED
    BY <2>1, <2>2
<1>4. CASE q.euid = pw.uid
  BY <1>2, <1>3, <1>4 DEF ActsFor
<1>5. CASE q.euid # pw.uid
  <2>1. r \in {q, [q EXCEPT !.uid = pw.uid, !.euid = pw.uid]} /\ r.uid = pw.uid
    BY <1>2, <1>5 DEF setuid
  <2>2. r # q
    BY <1>3, <1>5, <2>1
  <2>3. r = [q EXCEPT !.uid = pw.uid, !.euid = pw.uid]
    BY <2>1, <2>2
  <2>4. r.uid = pw.uid /\ r.euid = pw.uid /\ r.gid = q.gid /\ r.groups = q.groups
    BY <1>3, <2>3
  <2> QED
    BY <1>3, <2>4 DEF ActsFor
<1> QED
  BY <1>4, <1>5

(* Whatever getpwnam returns is the account. *)
LEMMA AccountOnly ==
  ASSUME passwd \in getpwnam, NEW pw \in passwd
  PROVE  pw.uid = Owner.uid
  BY DEF getpwnam, Owner

-----------------------------------------------------------------------------
(* A refusal leaves nothing to be relied on but its reason. *)
LEMMA RefusedInv ==
  ASSUME AuthInv, NEW chance, Refused(chance), apc \notin {"none", "exited", "killed"},
         UNCHANGED <<auth, server, passwd, at, target, loose>>,
         apc # "start" => UNCHANGED prober,
         Undisturbed /\ ~chance => ~(Lists(at[target]) /\ SafeFile(at[target])) /\ UNCHANGED prober
  PROVE  AuthInv'
<1> USE DEF AuthInv
<1>1. apc' = "exited" /\ status' = 111 /\ failed' = (failed \/ chance) /\ ~Success'
      /\ auth \notin {"granted", "idle"}
  BY DEF Refused, global_die, Success, Setting, Decided
<1>2. Setting' /\ Decided'
  BY <1>1 DEF Setting, Decided
<1>3. Vetted' /\ Searched'
  BY <1>1 DEF Vetted, Searched
<1>4. Straight'
  <2>1. Undisturbed' = Undisturbed
    BY DEF Undisturbed, SafePath, check
  <2>2. ~chance /\ Undisturbed => ~(Lists(at[target]) /\ SafeFile(at[target]))'
    BY DEF SafeFile, Owned, Lists
  <2> QED
    BY <1>1, <2>1, <2>2 DEF Straight
<1> QED
  BY <1>2, <1>3, <1>4
(* A child that goes on to another place keeps what was known if it adds
   what that place asks for. *)
LEMMA GoesOn ==
  ASSUME AuthInv, NEW l, Goto(l), l \in {"open", "fstat", "realpath", "stat", "check", "getln"},
         apc \notin {"none", "exited", "killed"},
         UNCHANGED <<auth, server, passwd, at, target, loose, failed>>, Vetted', Searched',
         Undisturbed => /\ l # "open" => fd' = at[target]
                        /\ l \in {"stat", "check", "getln"} => path' = target
  PROVE  AuthInv'
<1> USE DEF AuthInv
<1>1. apc' = l /\ status' = status /\ ~Success' /\ auth \notin {"granted", "idle"}
  BY DEF Goto, Success, Setting, Decided
<1>2. Setting' /\ Decided'
  BY <1>1 DEF Setting, Decided
<1>3. Straight'
  <2>1. Undisturbed' = Undisturbed
    BY DEF Undisturbed, SafePath, check
  <2> QED
    BY <1>1, <2>1 DEF Straight
<1> QED
  BY <1>2, <1>3

(* The lines of a file. *)
LEMMA Lines ==
  ASSUME NEW i \in DOMAIN Files
  PROVE  Len(Files[i].lines) \in Nat \ {0} /\ DOMAIN Files[i].lines = 1..Len(Files[i].lines)
<1>1. Files[i].lines \in Seq(STRING) /\ Files[i].lines # <<>>
  BY AuthorizeAssumption
<1> QED
  BY <1>1, EmptySeq, LenProperties

(* Every step of the child that checks the file, and of those who move it
   (subprocess_auth.c:92, :112, :164). *)
LEMMA AuthStep == AuthInv /\ AuthNext => AuthInv'
<1> SUFFICES ASSUME AuthInv, AuthNext PROVE AuthInv'
  OBVIOUS
<1> USE DEF AuthInv
<1>1. CASE subprocess_auth
  <2>1. /\ apc = "none" /\ auth = "idle" /\ ~Success' /\ (apc' = "none" \/ apc' = "start")
        /\ auth' = "refused" => failed'
        /\ apc' = "start" => prober' = server /\ auth' = "waiting"
        /\ auth' \in {"waiting", "refused"}
    BY <1>1 DEF subprocess_auth, Setting, Success
  <2>2. UNCHANGED <<server, passwd, status, fd, path, at, target, loose, line>>
    BY <1>1 DEF subprocess_auth
  <2>3. Setting' /\ Decided'
    BY <2>1, <2>2 DEF Setting, Decided
  <2>4. Vetted' /\ Searched' /\ Straight'
    BY <2>1, <2>2 DEF Vetted, Searched, Straight
  <2> QED
    BY <2>3, <2>4
<1>2. CASE subprocess_auth_child
  <2>0. apc = "start" /\ UNCHANGED <<auth, server, passwd, at, target, loose>>
    BY <1>2 DEF subprocess_auth_child
  <2>1. CASE Refused(TRUE)
    BY <2>0, <2>1, RefusedInv
  <2>2. CASE /\ \E pw \in passwd : \E p \in dropuidgid(prober, pw) : prober' = p
             /\ Goto("open") /\ UNCHANGED <<fd, path, line, failed>>
    <3>1. PICK pw \in passwd : prober' \in dropuidgid(server, pw)
      BY <2>0, <2>2 DEF Setting
    <3>2. ActsFor(prober', pw, server)
      BY <3>1, Dropped DEF Setting
    <3>3. apc' = "open" /\ ~Success'
      BY <2>2 DEF Goto, Success
    <3>4. Acts'
      BY <2>0, <3>2 DEF Acts, ActsFor
    <3>5. Vetted' /\ Searched'
      BY <2>0, <2>2, <3>3, <3>4 DEF Vetted, Searched
    <3> QED
      BY <2>0, <2>2, <3>5, GoesOn
  <2> QED
    BY <1>2, <2>1, <2>2 DEF subprocess_auth_child
<1>3. CASE open_authorized_keys
  <2>0. apc = "open" /\ UNCHANGED <<auth, server, passwd, prober, at, target, loose>>
    BY <1>3 DEF open_authorized_keys
  <2>1. CASE Refused(TRUE)
    BY <2>0, <2>1, RefusedInv
  <2>2. CASE fd' = at[target] /\ Goto("fstat") /\ UNCHANGED <<path, line, failed>>
    <3>1. apc' = "fstat" /\ ~Success' /\ fd' \in DOMAIN Files
      BY <2>2 DEF Goto, Success, Setting
    <3>2. Vetted' /\ Searched'
      BY <2>0, <2>2, <3>1 DEF Vetted, Searched, Acts, ActsFor
    <3> QED
      BY <2>0, <2>2, <3>2, GoesOn
  <2> QED
    BY <1>3, <2>1, <2>2 DEF open_authorized_keys
<1>4. CASE checkpath_fstat
  <2>0. apc = "fstat" /\ UNCHANGED <<auth, server, passwd, prober, at, target, loose>>
    BY <1>4 DEF checkpath_fstat
  <2>1. CASE Refused(SafeFile(fd))
    <3>1. Undisturbed => fd = at[target]
      BY <2>0 DEF Straight
    <3> QED
      BY <2>0, <2>1, <3>1, RefusedInv
  <2>2. CASE SafeFile(fd) /\ Goto("realpath") /\ UNCHANGED <<fd, path, line, failed>>
    <3>1. apc' = "realpath" /\ ~Success'
      BY <2>2 DEF Goto, Success
    <3>2. Vetted' /\ Searched'
      BY <2>0, <2>2, <3>1 DEF Vetted, Searched, Acts, ActsFor, SafeFile, Owned
    <3>3. Undisturbed => fd = at[target]
      BY <2>0 DEF Straight
    <3> QED
      BY <2>0, <2>2, <3>2, <3>3, GoesOn
  <2> QED
    BY <1>4, <2>1, <2>2 DEF checkpath_fstat
<1>5. CASE checkpath_realpath
  <2>0. apc = "realpath" /\ UNCHANGED <<auth, server, passwd, prober, at, target, loose>>
    BY <1>5 DEF checkpath_realpath
  <2>1. CASE Refused(TRUE)
    BY <2>0, <2>1, RefusedInv
  <2>2. CASE path' = target /\ Goto("stat") /\ UNCHANGED <<fd, line, failed>>
    <3>1. apc' = "stat" /\ ~Success' /\ path' \in DOMAIN Above
      BY <2>2 DEF Goto, Success, Setting
    <3>2. Vetted' /\ Searched'
      BY <2>0, <2>2, <3>1 DEF Vetted, Searched, Acts, ActsFor, SafeFile, Owned
    <3>3. Undisturbed => fd = at[target]
      BY <2>0 DEF Straight
    <3> QED
      BY <2>0, <2>2, <3>2, <3>3, GoesOn
  <2> QED
    BY <1>5, <2>1, <2>2 DEF checkpath_realpath
<1>6. CASE checkpath_stat
  <2>0. apc = "stat" /\ UNCHANGED <<auth, server, passwd, prober, at, target, loose>>
    BY <1>6 DEF checkpath_stat
  <2>1. Undisturbed => fd = at[target] /\ path = target
    BY <2>0 DEF Straight
  <2>2. CASE Refused(at[path] = fd)
    BY <2>0, <2>1, <2>2, RefusedInv
  <2>3. CASE at[path] = fd /\ Goto("check") /\ UNCHANGED <<fd, path, line, failed>>
    <3>1. apc' = "check" /\ ~Success'
      BY <2>3 DEF Goto, Success
    <3>2. Vetted' /\ Searched'
      BY <2>0, <2>3, <3>1 DEF Vetted, Searched, Acts, ActsFor, SafeFile, Owned
    <3> QED
      BY <2>0, <2>1, <2>3, <3>2, GoesOn
  <2> QED
    BY <1>6, <2>2, <2>3 DEF checkpath_stat
<1>7. CASE checkpath_check
  <2>0. apc = "check" /\ UNCHANGED <<auth, server, passwd, prober, at, target, loose>>
    BY <1>7 DEF checkpath_check
  <2>1. Undisturbed => fd = at[target] /\ path = target
    BY <2>0 DEF Straight
  <2>2. CASE Refused(SafePath(path))
    <3>1. Undisturbed => SafePath(path)
      BY <2>0 DEF Undisturbed, Vetted
    <3> QED
      BY <2>0, <2>2, <3>1, RefusedInv
  <2>3. CASE SafePath(path) /\ Goto("getln") /\ UNCHANGED <<fd, path, line, failed>>
    <3>1. apc' = "getln" /\ ~Success' /\ (SafePath(path))' /\ at[path] = fd
      BY <2>0, <2>3 DEF Goto, Success, SafePath, check, Vetted
    <3>2. Vetted'
      BY <2>0, <2>3, <3>1 DEF Vetted, Acts, ActsFor, SafeFile, Owned
    <3>3. line = 0 /\ Len(Files[fd].lines) \in Nat \ {0}
      BY <2>0, Lines DEF Searched, Vetted
    <3>4. Searched'
      BY <2>3, <3>1, <3>3 DEF Searched
    <3> QED
      BY <2>0, <2>1, <2>3, <3>2, <3>4, GoesOn
  <2> QED
    BY <1>7, <2>2, <2>3 DEF checkpath_check
<1>8. CASE authorizedkeys_getln
  <2> DEFINE lines == Files[fd].lines
             k == line + 1
  <2>0. apc = "getln" /\ UNCHANGED <<auth, server, passwd, prober, at, target, loose>>
    BY <1>8 DEF authorizedkeys_getln
  <2>1. CASE Refused(TRUE)
    BY <2>0, <2>1, RefusedInv
  <2>2. CASE /\ line' = k /\ UNCHANGED <<fd, path, failed>>
             /\ CASE getln(lines, k) = -1 -> global_die(111)
                  [] findnameandkey(lines[k]) -> global_die(0)
                  [] OTHER -> IF getln(lines, k) > 0 THEN Goto("getln") ELSE global_die(111)
    <3>1. /\ fd \in DOMAIN Files /\ line \in Nat /\ k \in 1..Len(lines) /\ Len(lines) \in Nat
          /\ DOMAIN lines = 1..Len(lines)
          /\ \A j \in 1..line : lines[j] \notin {"long", "key"}
      BY <2>0, Lines DEF Vetted, Searched
    <3>2. /\ getln(lines, k) = -1 <=> lines[k] = "long"
          /\ getln(lines, k) > 0 <=> lines[k] # "long" /\ k # Len(lines)
      BY <3>1 DEF getln
    <3>3. /\ Undisturbed => fd = at[target] /\ path = target
          /\ Undisturbed' = Undisturbed
      BY <2>0 DEF Straight, Undisturbed, SafePath, check
    <3>4. auth = "waiting"
      BY <2>0 DEF Setting
    <3>5. CASE lines[k] = "long" /\ global_die(111)
      <4>1. ~Lists(fd)
        <5> SUFFICES ASSUME NEW j \in 1..Len(lines), lines[j] = "key",
                            \A m \in 1..(j - 1) : lines[m] # "long"
                     PROVE  FALSE
          BY <3>1 DEF Lists
        <5>1. ~(j <= line)
          BY <3>1
        <5>2. k \in 1..(j - 1)
          BY <3>1, <3>5, <5>1
        <5> QED
          BY <3>5, <5>2
      <4> QED
        BY <2>0, <2>2, <3>3, <3>4, <3>5, <4>1
           DEF global_die, Success, Setting, Vetted, Searched, Straight, Decided, Lists
    <3>6. CASE lines[k] = "key" /\ global_die(0)
      <4>1. Lists(fd)
        BY <3>1, <3>6 DEF Lists
      <4>2. apc' = "exited" /\ status' = 0 /\ Success'
        BY <3>6 DEF global_die, Success
      <4>3. Setting' /\ Decided'
        BY <2>0, <3>4, <4>2 DEF Setting, Decided
      <4>4. Vetted'
        BY <2>0, <2>2, <4>2 DEF Vetted, Acts, ActsFor, SafeFile, Owned, SafePath, check
      <4>5. Searched' /\ Straight'
        BY <2>2, <4>1, <4>2 DEF Searched, Straight, Lists
      <4> QED
        BY <4>3, <4>4, <4>5
    <3>7. CASE lines[k] \notin {"long", "key"} /\ k = Len(lines) /\ global_die(111)
      <4>1. ~Lists(fd)
        <5> SUFFICES ASSUME NEW j \in 1..Len(lines), lines[j] = "key"
                     PROVE  FALSE
          BY <3>1 DEF Lists
        <5>1. ~(j <= line) /\ j # k
          BY <3>1, <3>7
        <5> QED
          BY <3>1, <3>7, <5>1
      <4> QED
        BY <2>0, <2>2, <3>3, <3>4, <3>7, <4>1
           DEF global_die, Success, Setting, Vetted, Searched, Straight, Decided, Lists
    <3>8. CASE lines[k] \notin {"long", "key"} /\ k # Len(lines) /\ Goto("getln")
      <4>1. apc' = "getln" /\ ~Success'
        BY <3>8 DEF Goto, Success
      <4>2. Vetted'
        BY <2>0, <2>2, <4>1 DEF Vetted, Acts, ActsFor, SafeFile, Owned, SafePath, check
      <4>3. \A j \in 1..k : lines[j] \notin {"long", "key"}
        <5> TAKE j \in 1..k
        <5>1. j \in 1..line \/ j = k
          BY <3>1
        <5> QED
          BY <3>1, <3>8, <5>1
      <4>4. k \in Nat /\ k < Len(lines)
        BY <3>1, <3>8
      <4>5. Searched'
        <5> HIDE DEF k
        <5> QED
          BY <2>2, <4>1, <4>3, <4>4 DEF Searched
      <4> QED
        BY <2>0, <2>2, <3>3, <3>8, <4>2, <4>5, GoesOn
    <3> QED
      BY <2>2, <3>2, <3>5, <3>6, <3>7, <3>8 DEF findnameandkey
  <2> QED
    BY <1>8, <2>1, <2>2 DEF authorizedkeys_getln
<1>9. CASE ProberKilled
  <2>1. /\ apc \notin {"none", "exited", "killed"} /\ apc' = "killed" /\ failed' /\ ~Success /\ ~Success'
        /\ UNCHANGED <<auth, server, passwd, status, at, target, loose>>
    BY <1>9 DEF ProberKilled, Success
  <2>2. Setting' /\ Decided'
    BY <2>1 DEF Setting, Decided
  <2>3. Vetted' /\ Searched' /\ Straight'
    BY <2>1 DEF Vetted, Searched, Straight
  <2> QED
    BY <2>2, <2>3
<1>10. CASE subprocess_auth_waitpid
  <2>1. /\ auth = "waiting" /\ apc \in {"exited", "killed"}
        /\ auth' = IF Success THEN "granted" ELSE "refused"
        /\ UNCHANGED <<server, passwd, prober, apc, status, fd, path, at, target, loose, line, failed>>
    BY <1>10 DEF subprocess_auth_waitpid, Success
  <2>2. Success' = Success
    BY <2>1 DEF Success
  <2>3. Setting' /\ Decided'
    BY <2>1, <2>2 DEF Setting, Decided, Success
  <2>4. Vetted' /\ Searched'
    BY <2>1, <2>2 DEF Vetted, Searched, Acts, ActsFor, SafeFile, Owned, SafePath, check, Lists
  <2>5. Straight'
    BY <2>1 DEF Straight, Undisturbed, SafePath, check, Lists, SafeFile, Owned
  <2> QED
    BY <2>3, <2>4, <2>5
<1>11. CASE Meddle
  <2>1. /\ auth = "waiting"
        /\ UNCHANGED <<auth, server, passwd, prober, apc, status, fd, path, loose, line, failed>>
    BY <1>11 DEF Meddle
  <2>2. Success' = Success /\ Undisturbed' = Undisturbed /\ \A p : SafePath(p)' = SafePath(p)
    BY <2>1 DEF Success, Undisturbed, SafePath, check
  <2>3. /\ at' \in [DOMAIN Above -> DOMAIN Files] /\ target' \in DOMAIN Above
        /\ \A p \in DOMAIN Above : SafePath(p) => at'[p] = at[p]
        /\ ~Undisturbed
    <3>1. CASE \E p \in DOMAIN Above, i \in DOMAIN Files :
                 ~SafePath(p) /\ at' = [at EXCEPT ![p] = i] /\ UNCHANGED target
      BY <3>1 DEF Setting, Undisturbed
    <3>2. CASE \E p \in DOMAIN Above : ~SafePath(target) /\ target' = p /\ UNCHANGED at
      BY <3>2 DEF Setting, Undisturbed
    <3> QED
      BY <1>11, <3>1, <3>2 DEF Meddle
  <2>4. Setting' /\ Decided'
    BY <2>1, <2>2, <2>3 DEF Setting, Decided
  <2>5. Vetted'
    BY <2>1, <2>2, <2>3 DEF Vetted, Acts, ActsFor, SafeFile, Owned
  <2>6. Searched' /\ Straight'
    BY <2>1, <2>2, <2>3 DEF Searched, Straight, Lists
  <2> QED
    BY <2>4, <2>5, <2>6
<1> QED
  BY <1>1, <1>2, <1>3, <1>4, <1>5, <1>6, <1>7, <1>8, <1>9, <1>10, <1>11 DEF AuthNext, Prober
(* Before the first step. *)
LEMMA AuthStart == AuthInit => AuthInv
<1> SUFFICES ASSUME AuthInit PROVE AuthInv
  OBVIOUS
<1>1. at \in [DOMAIN Above -> DOMAIN Files]
  BY AuthorizeAssumption DEF AuthInit
<1>2. Setting /\ ~Success
  BY <1>1 DEF AuthInit, Setting, Success
<1> QED
  BY <1>2 DEF AuthInit, AuthInv, Vetted, Searched, Straight, Decided

(* A login does not touch what was decided. *)
LEMMA AuthStays == AuthInv /\ UNCHANGED authVars => AuthInv'
<1> SUFFICES ASSUME AuthInv, UNCHANGED authVars PROVE AuthInv'
  OBVIOUS
<1>1. UNCHANGED <<auth, server, passwd, prober, apc, status, fd, path, at, target, loose, line, failed>>
  BY DEF authVars
<1>2. Success' = Success /\ Undisturbed' = Undisturbed
  BY <1>1 DEF Success, Undisturbed, SafePath, check
<1>3. Setting' /\ Decided'
  BY <1>1, <1>2 DEF AuthInv, Setting, Decided
<1>4. Vetted' /\ Searched'
  BY <1>1, <1>2 DEF AuthInv, Vetted, Searched, Acts, ActsFor, SafeFile, Owned, SafePath, check, Lists
<1>5. Straight'
  BY <1>1, <1>2 DEF AuthInv, Straight, Lists, SafeFile, Owned
<1> QED
  BY <1>3, <1>4, <1>5 DEF AuthInv

(* The authentication part of a login keeps its invariant throughout. *)
LEMMA AuthAlways == Spec => []AuthInv
<1>1. Init => AuthInv
  BY AuthStart DEF Init
<1>2. AuthInv /\ [Next]_vars => AuthInv'
  BY AuthStep, AuthStays DEF Next, vars
<1> QED
  BY <1>1, <1>2, PTL DEF Spec

(* What the invariant says when the server has its answer. *)
LEMMA DecisionRight == AuthInv => KeyDecision
<1> SUFFICES ASSUME AuthInv PROVE KeyDecision
  OBVIOUS
<1> USE DEF AuthInv
<1>1. GrantIsListed
  <2> SUFFICES ASSUME auth = "granted" PROVE GrantIsListed!2
    BY DEF GrantIsListed
  <2>1. Success
    BY DEF Decided
  <2>2. SafeFile(fd) /\ SafePath(path) /\ at[path] = fd /\ Lists(fd) /\ Acts
    BY <2>1 DEF Vetted, Searched
  <2>3. PICK pw \in passwd : ActsFor(prober, pw, server)
    BY <2>2 DEF Acts
  <2>4. prober.euid = Owner.uid
    BY <2>3, AccountOnly DEF ActsFor, Setting
  <2>5. Files[fd].owner \in {Owner.uid, Root}
    BY <2>2, <2>4 DEF SafeFile, Owned
  <2> QED
    BY <2>2, <2>3, <2>5
<1>2. ListedIsGranted
  BY DEF ListedIsGranted, Decided, Straight, Undisturbed
<1> QED
  BY <1>1, <1>2 DEF KeyDecision

(* subprocess_auth grants a key only out of a file, and along a path, that
   nobody but the account and the superuser can change, and refuses none that
   is listed there unless something failed or could interfere: for all files,
   paths and lines, and whatever is moved between two system calls
   (subprocess_auth.c:92). *)
THEOREM KeyDecisionRight == Spec => []KeyDecision
<1>1. AuthInv => KeyDecision
  BY DecisionRight
<1> QED
  BY <1>1, AuthAlways, PTL
-----------------------------------------------------------------------------
(* The value that a program started with the table finds under a name. *)
Value(t, s) == {x.val : x \in {y \in newenv_exec(t) : y.name = s}}

(* A table with the variables so far, or the one that failed. *)
Attempt(r) == Table(r.env) /\ r.ok \in BOOLEAN

(* r is b with one more variable: it is as sound as b was, and if the variable
   fitted it is the one value of its name, and the others are what they were. *)
Follows(b, r, s, v) ==
  r.ok => /\ b.ok /\ Value(r.env, s) = {v}
          /\ \A k : k # s => Value(r.env, k) = Value(b.env, k)

(* One more line of channel_exec's environment makes a table with that line
   changed. *)
LEMMA ThenTable ==
  ASSUME NEW b, Attempt(b), NEW s, s # "", NEW v
  PROVE  Attempt(Then(b, s, v)) /\ Follows(b, Then(b, s, v), s, v)
<1> DEFINE r == newenv_env(b.env, s, v)
           q == IF b.ok THEN r ELSE b
<1>1. Then(b, s, v) = q
  <2>1. {IF c.ok THEN newenv_env(c.env, s, v) ELSE c : c \in {b}} = {q}
    OBVIOUS
  <2> HIDE DEF q
  <2> QED
    BY <2>1 DEF Then
<1>2. Updated(b.env, r, s, v)
  BY UpdatedTable DEF Attempt, newenv_env
<1>3. CASE ~b.ok
  BY <1>1, <1>3 DEF Follows
<1>4. CASE b.ok
  <2> HIDE DEF r
  <2>1. Then(b, s, v) = r /\ Attempt(r)
    BY <1>1, <1>2, <1>4 DEF Updated, Attempt
  <2>2. ASSUME r.ok
        PROVE  Value(r.env, s) = {v} /\ \A k : k # s => Value(r.env, k) = Value(b.env, k)
    <3>1. newenv_exec(r.env) = Others(b.env, s) \cup {Entry(s, v)}
      BY <1>2, <2>2 DEF Updated
    <3>2. Entry(s, v).name = s /\ Entry(s, v).val = v
      BY DEF Entry
    <3> HIDE DEF r
    <3>3. {y \in newenv_exec(r.env) : y.name = s} = {Entry(s, v)}
      BY <3>1, <3>2 DEF Others
    <3>4. Value(r.env, s) = {v}
      BY <3>2, <3>3 DEF Value
    <3>5. ASSUME NEW k, k # s PROVE Value(r.env, k) = Value(b.env, k)
      <4>1. {y \in newenv_exec(r.env) : y.name = k} = {y \in newenv_exec(b.env) : y.name = k}
        BY <3>1, <3>2, <3>5 DEF Others
      <4> QED
        BY <4>1 DEF Value
    <3> QED
      BY <3>4, <3>5
  <2> QED
    BY <1>4, <2>1, <2>2 DEF Follows
<1> QED
  BY <1>2, <1>3, <1>4 DEF Attempt

(* The server's own variables, refused or not (newenv.c:126). *)
LEMMA EnvAttempt ==
  ASSUME NEW t, Table(t), NEW s, s # "", NEW v
  PROVE  Attempt(newenv_env(t, s, v)) /\ Attempt(newenv_lowenv(t, s, v))
<1>1. Updated(t, newenv_env(t, s, v), s, v) /\ Updated(t, newenv_lowenv(t, s, v), s, v)
  BY UpdatedTable DEF newenv_env, newenv_lowenv
<1> QED
  BY <1>1 DEF Updated, Attempt

(* What the shell finds once all the account's variables fitted: each has the
   account's value and no other (channel_drop.c:34). *)
LEMMA AccountVarsSet ==
  ASSUME NEW t, Attempt(t), NEW pw
  PROVE  /\ Attempt(AccountVars(t, pw))
         /\ AccountVars(t, pw).ok =>
              LET env == AccountVars(t, pw).env
              IN  /\ Value(env, "HOME") = {pw.home}
                  /\ \A k \in {"USER", "LOGNAME", "LOGIN"} : Value(env, k) = {pw.name}
                  /\ Value(env, "SHELL") = {IF pw.shell = "" THEN "/bin/sh" ELSE pw.shell}
<1> DEFINE shell == IF pw.shell = "" THEN "/bin/sh" ELSE pw.shell
           a1 == Then(t, "HOME", pw.home)
           a2 == Then(a1, "USER", pw.name)
           a3 == Then(a2, "LOGNAME", pw.name)
           a4 == Then(a3, "LOGIN", pw.name)
           a5 == Then(a4, "SHELL", shell)
<1>0. AccountVars(t, pw) = a5
  BY DEF AccountVars
<1> HIDE DEF shell
<1>1. Attempt(a1) /\ Follows(t, a1, "HOME", pw.home)
  BY ThenTable
<1>2. Attempt(a2) /\ Follows(a1, a2, "USER", pw.name)
  <2> HIDE DEF a1
  <2> QED
    BY <1>1, ThenTable
<1>3. Attempt(a3) /\ Follows(a2, a3, "LOGNAME", pw.name)
  <2> HIDE DEF a2
  <2> QED
    BY <1>2, ThenTable
<1>4. Attempt(a4) /\ Follows(a3, a4, "LOGIN", pw.name)
  <2> HIDE DEF a3
  <2> QED
    BY <1>3, ThenTable
<1>5. Attempt(a5) /\ Follows(a4, a5, "SHELL", shell)
  <2> HIDE DEF a4
  <2> QED
    BY <1>4, ThenTable
<1> HIDE DEF a1, a2, a3, a4, a5
<1>6. ASSUME a5.ok
      PROVE  /\ Value(a5.env, "HOME") = {pw.home}
             /\ \A k \in {"USER", "LOGNAME", "LOGIN"} : Value(a5.env, k) = {pw.name}
             /\ Value(a5.env, "SHELL") = {shell}
  <2>1. a4.ok /\ a3.ok /\ a2.ok /\ a1.ok
    BY <1>2, <1>3, <1>4, <1>5, <1>6 DEF Follows
  <2>2. Value(a1.env, "HOME") = {pw.home} /\ Value(a2.env, "HOME") = {pw.home}
    BY <1>1, <1>2, <2>1 DEF Follows
  <2>3. Value(a3.env, "HOME") = {pw.home} /\ Value(a3.env, "USER") = {pw.name}
        /\ Value(a3.env, "LOGNAME") = {pw.name}
    BY <1>2, <1>3, <2>1, <2>2 DEF Follows
  <2>4. Value(a4.env, "HOME") = {pw.home}
        /\ \A k \in {"USER", "LOGNAME", "LOGIN"} : Value(a4.env, k) = {pw.name}
    BY <1>4, <2>1, <2>3 DEF Follows
  <2> QED
    BY <1>5, <1>6, <2>4 DEF Follows
<1> QED
  BY <1>0, <1>5, <1>6 DEF shell
-----------------------------------------------------------------------------
(* The tables: the server's is sound until it is purged, the child's always. *)
Tables ==
  /\ n = newenv_purge \/ Table(n)
  /\ chan \in {"none", "open", "forking"} => Table(n)
  /\ ServerForgets
  /\ Table(cn)

(* How far the login has come: there is a child from the fork until it is
   reaped, it is the server's twin until it drops its rights, and nothing of
   this happens before a key was accepted. *)
Stages ==
  /\ chan \in {"none", "open", "forking", "running", "reaped", "closed", "dead"}
  /\ cpc \in {"none", "login_tty", "login", "droppriv", "shell", "exited"}
  /\ ready \in 0..1
  /\ chan # "none" => auth = "granted"
  /\ chan \in {"none", "open", "closed", "reaped"} => cpc = "none"
  /\ chan \in {"forking", "running"} => cpc # "none"
  /\ cpc \in {"login_tty", "login", "droppriv"} => child = server

(* The terminal's records: none before there is a child, none of a channel
   without a terminal, and none as in use after the child was reaped. *)
Records ==
  /\ tty \in BOOLEAN
  /\ record \in [Databases -> {"none", "USER_PROCESS", "DEAD_PROCESS"}]
  /\ chan \in {"none", "open", "closed"} \/ ~tty => \A d \in Databases : record[d] = "none"
  /\ chan = "reaped" => \A d \in Databases : record[d] # "USER_PROCESS"

LoginInv == Tables /\ Stages /\ Records /\ ShellIsAccounts
(* A step that starts no shell and leaves a running one alone. *)
LEMMA ShellKept ==
  ASSUME ShellIsAccounts, UNCHANGED <<passwd, server>>,
         cpc' = "shell" => cpc = "shell" /\ UNCHANGED <<child, seen, tty, ttyowner>>
  PROVE  ShellIsAccounts'
<1> SUFFICES ASSUME cpc' = "shell" PROVE ShellIsAccounts'
  BY DEF ShellIsAccounts
<1>1. cpc' = cpc /\ UNCHANGED <<child, seen, tty, ttyowner, passwd, server>>
  OBVIOUS
<1> QED
  BY <1>1, Zenon DEF ShellIsAccounts, ActsFor

(* A connection starts with no user, no environment and nothing logged. *)
LEMMA LoginStart == Init => LoginInv
<1> SUFFICES ASSUME Init PROVE LoginInv
  OBVIOUS
<1> USE DEF Init, LoginInit
<1>1. Tables
  BY InitTable DEF Tables, ServerForgets
<1>2. Stages
  BY DEF Stages
<1>3. Records
  BY DEF Records
<1> QED
  BY <1>1, <1>2, <1>3 DEF LoginInv, ShellIsAccounts

(* While the key is not yet accepted, there is no login. *)
LEMMA AuthFirst == AuthInv /\ AuthNext => auth # "granted"
<1> SUFFICES ASSUME AuthInv, AuthNext, auth = "granted" PROVE FALSE
  OBVIOUS
<1>1. apc = "exited"
  BY DEF AuthInv, Decided, Success
<1> QED
  BY <1>1 DEF AuthNext, Prober, subprocess_auth, subprocess_auth_child, open_authorized_keys,
     checkpath_fstat, checkpath_realpath, checkpath_stat, checkpath_check, authorizedkeys_getln,
     ProberKilled, subprocess_auth_waitpid, Meddle

(* The table when the channel opens: PATH, SSH_CONNECTION and MAIL. *)
LEMMA OpenedTable ==
  ASSUME Table(n), channel_open
  PROVE  Table(n')
<1>1. PICK inherited \in Paths :
        \E p \in {newenv_copyenv(n, "PATH", inherited)} :
          \E q \in {IF p.ok THEN p ELSE newenv_env(p.env, "PATH", "/bin:/usr/bin")} :
            n' = Then(Then(q, "SSH_CONNECTION", "ip"), "MAIL", "box").env
  BY DEF channel_open
<1> DEFINE p == newenv_copyenv(n, "PATH", inherited)
           q == IF p.ok THEN p ELSE newenv_env(p.env, "PATH", "/bin:/usr/bin")
           a == Then(q, "SSH_CONNECTION", "ip")
<1>2. n' = Then(a, "MAIL", "box").env
  BY <1>1
<1>3. Attempt(p)
  <2>1. CASE inherited = {}
    BY <2>1 DEF newenv_copyenv, Attempt
  <2>2. CASE inherited # {}
    <3>1. p = newenv_env(n, "PATH", CHOOSE v \in inherited : TRUE)
      BY <2>2 DEF newenv_copyenv
    <3> HIDE DEF p
    <3> QED
      BY <3>1, EnvAttempt
  <2> QED
    BY <2>1, <2>2
<1> HIDE DEF p
<1>4. Attempt(q)
  <2>1. Attempt(newenv_env(p.env, "PATH", "/bin:/usr/bin"))
    BY <1>3, EnvAttempt DEF Attempt
  <2> QED
    BY <1>3, <2>1
<1> HIDE DEF q
<1>5. Attempt(a)
  BY <1>4, ThenTable
<1> HIDE DEF a
<1>6. Attempt(Then(a, "MAIL", "box"))
  BY <1>5, ThenTable
<1> QED
  BY <1>2, <1>6 DEF Attempt
(* The account's program is started with the account's identity, directory,
   terminal and variables (channel_drop.c:14). *)
LEMMA StartedShell ==
  ASSUME AuthInv, LoginInv, exec_child, UNCHANGED <<passwd, server>>, cpc' = "shell"
  PROVE  ShellIsAccounts' /\ Table(cn')
<1>1. cpc = "droppriv" /\ child = server /\ server \in Processes /\ Table(cn)
      /\ tty \in BOOLEAN /\ tty' = tty
  BY DEF exec_child, LoginInv, Stages, AuthInv, Setting, Tables, Records
<1>2. PICK pw \in passwd : channel_droppriv(pw)
  BY DEF exec_child, droppriv_fails
<1> DEFINE t == IF tty THEN newenv_env(cn, "SSH_TTY", "pts") ELSE [ok |-> TRUE, env |-> cn]
           r == AccountVars(t, pw)
<1>3. /\ r.ok /\ ttyowner' = IF tty THEN pw.uid ELSE ttyowner
      /\ child' \in dropuidgid(child, pw) /\ cn' = r.env
      /\ seen' = [env |-> newenv_exec(r.env), dir |-> pw.home]
  BY <1>2 DEF channel_droppriv
<1>4. Attempt(t)
  <2>1. Attempt(newenv_env(cn, "SSH_TTY", "pts"))
    BY <1>1, EnvAttempt
  <2> QED
    BY <1>1, <2>1 DEF Attempt
<1> HIDE DEF t
<1>5. Attempt(r)
  BY <1>4, AccountVarsSet
<1>6. /\ Value(r.env, "HOME") = {pw.home}
      /\ \A k \in {"USER", "LOGNAME", "LOGIN"} : Value(r.env, k) = {pw.name}
      /\ Value(r.env, "SHELL") = {IF pw.shell = "" THEN "/bin/sh" ELSE pw.shell}
  BY <1>3, <1>4, AccountVarsSet
<1> HIDE DEF r
<1>7. seen'.env = newenv_exec(r.env) /\ seen'.dir = pw.home
  BY <1>3
<1>8. \A k \in {"HOME", "USER", "LOGNAME", "LOGIN", "SHELL"} :
        {x.val : x \in {y \in seen'.env : y.name = k}} =
          {CASE k = "HOME" -> pw.home
             [] k = "SHELL" -> IF pw.shell = "" THEN "/bin/sh" ELSE pw.shell
             [] OTHER -> pw.name}
  <2> TAKE k \in {"HOME", "USER", "LOGNAME", "LOGIN", "SHELL"}
  <2>1. {x.val : x \in {y \in seen'.env : y.name = k}} = Value(r.env, k)
    BY <1>7 DEF Value
  <2> QED
    BY <1>6, <2>1
<1>9. ActsFor(child', pw, server)
  BY <1>1, <1>3, Dropped
<1>10. (ActsFor(child, pw, server))'
  BY <1>9 DEF ActsFor
<1>11. tty' => ttyowner' = pw.uid
  BY <1>1, <1>3
<1> QED
  BY <1>3, <1>5, <1>7, <1>8, <1>10, <1>11, Zenon DEF ShellIsAccounts, Attempt

(* Every step of the login. *)
LEMMA LoginStep == AuthInv /\ LoginInv /\ LoginNext /\ UNCHANGED authVars => LoginInv'
<1> SUFFICES ASSUME AuthInv, LoginInv, LoginNext, UNCHANGED authVars PROVE LoginInv'
  OBVIOUS
<1>0. UNCHANGED <<auth, server, passwd>>
  BY DEF authVars
<1> USE DEF LoginInv
<1>1. CASE channel_open
  <2>1. Table(n')
    BY <1>1, OpenedTable DEF Tables, channel_open
  <2>2. Tables'
    BY <1>1, <2>1 DEF channel_open, Tables, ServerForgets
  <2>3. Stages'
    BY <1>0, <1>1 DEF channel_open, Stages
  <2>4. Records'
    BY <1>1 DEF channel_open, Records
  <2>5. ShellIsAccounts'
    BY <1>0, <1>1, ShellKept DEF channel_open
  <2> QED
    BY <2>2, <2>3, <2>4, <2>5
<1>2. CASE channel_openterminal
  <2>1. PICK t \in Terms : n' = newenv_env(n, "TERM", t).env /\ tty' = newenv_env(n, "TERM", t).ok
    BY <1>2 DEF channel_openterminal
  <2>2. Attempt(newenv_env(n, "TERM", t))
    BY <1>2, EnvAttempt DEF Tables, channel_openterminal
  <2>3. Table(n') /\ tty' \in BOOLEAN
    BY <2>1, <2>2 DEF Attempt
  <2>4. Tables'
    BY <1>2, <2>3 DEF channel_openterminal, Tables, ServerForgets
  <2>5. Stages'
    BY <1>0, <1>2 DEF channel_openterminal, Stages
  <2>6. Records'
    BY <1>2, <2>3 DEF channel_openterminal, Records
  <2>7. cpc' # "shell"
    BY <1>2 DEF channel_openterminal, Stages
  <2> QED
    BY <2>4, <2>5, <2>6, <2>7 DEF ShellIsAccounts
<1>3. CASE channel_env
  <2>1. PICK s \in EnvNames, v \in Terms : n' = newenv_lowenv(n, s, v).env
    BY <1>3 DEF channel_env
  <2>2. Attempt(newenv_lowenv(n, s, v))
    BY <1>3, EnvAttempt, LoginAssumption DEF Tables, channel_env
  <2>3. Table(n')
    BY <2>1, <2>2 DEF Attempt
  <2>4. Tables'
    BY <1>3, <2>3 DEF channel_env, Tables, ServerForgets
  <2>5. Stages'
    BY <1>0, <1>3 DEF channel_env, Stages
  <2>6. Records'
    BY <1>3 DEF channel_env, Records
  <2>7. ShellIsAccounts'
    BY <1>0, <1>3, ShellKept DEF channel_env
  <2> QED
    BY <2>4, <2>5, <2>6, <2>7
<1>4. CASE channel_exec
  <2>1. Tables'
    BY <1>4 DEF channel_exec, Tables, ServerForgets
  <2>2. Stages'
    BY <1>0, <1>4 DEF channel_exec, Stages
  <2>3. Records'
    BY <1>4 DEF channel_exec, Records
  <2>4. cpc' # "shell"
    BY <1>4 DEF channel_exec, Stages
  <2> QED
    BY <2>1, <2>2, <2>3, <2>4 DEF ShellIsAccounts
<1>5. CASE channel_close
  <2>1. Tables'
    BY <1>5 DEF channel_close, Tables, ServerForgets
  <2>2. Stages'
    BY <1>0, <1>5 DEF channel_close, Stages
  <2>3. Records'
    BY <1>5 DEF channel_close, Records
  <2>4. cpc' # "shell"
    BY <1>5 DEF channel_close, Stages
  <2> QED
    BY <2>1, <2>2, <2>3, <2>4 DEF ShellIsAccounts
<1>6. CASE forkpty_wait
  <2>1. Tables'
    BY <1>6 DEF forkpty_wait, Tables, ServerForgets
  <2>2. Stages'
    BY <1>0, <1>6 DEF forkpty_wait, Stages
  <2>3. Records'
    BY <1>6 DEF forkpty_wait, Records
  <2>4. ShellIsAccounts'
    BY <1>0, <1>6, ShellKept DEF forkpty_wait
  <2> QED
    BY <2>1, <2>2, <2>3, <2>4
<1>7. CASE channel_waitnohang
  <2>1. Tables'
    BY <1>7 DEF channel_waitnohang, Tables, ServerForgets
  <2>2. Stages'
    BY <1>0, <1>7 DEF channel_waitnohang, Stages
  <2>3. Records'
    BY <1>7 DEF channel_waitnohang, Records, logsys
  <2> QED
    BY <1>7, <2>1, <2>2, <2>3 DEF channel_waitnohang, ShellIsAccounts
<1>8. CASE forkpty_child
  <2>1. Tables'
    BY <1>8 DEF forkpty_child, Tables, ServerForgets
  <2>2. Stages'
    BY <1>0, <1>8 DEF forkpty_child, Stages
  <2>3. Records'
    BY <1>8 DEF forkpty_child, Records
  <2> QED
    BY <1>8, <2>1, <2>2, <2>3 DEF forkpty_child, ShellIsAccounts
<1>9. CASE logsys_login
  <2>1. Tables'
    BY <1>9 DEF logsys_login, Tables, ServerForgets
  <2>2. Stages'
    BY <1>0, <1>9 DEF logsys_login, Stages
  <2>3. Records'
    BY <1>9 DEF logsys_login, Records, logsys, Stages
  <2> QED
    BY <1>9, <2>1, <2>2, <2>3 DEF logsys_login, ShellIsAccounts
<1>10. CASE exec_child
  <2>1. /\ cpc = "droppriv" /\ cpc' \in {"shell", "exited"}
        /\ cpc' = "exited" => UNCHANGED cn
        /\ UNCHANGED <<n, chan, tty, ready, record>>
    BY <1>10 DEF exec_child, channel_droppriv, droppriv_fails
  <2>2. Table(cn') /\ ShellIsAccounts'
    BY <1>0, <1>10, <2>1, StartedShell DEF Tables, ShellIsAccounts
  <2>3. Tables'
    BY <2>1, <2>2 DEF Tables, ServerForgets
  <2>4. Stages'
    BY <1>0, <2>1 DEF Stages
  <2>5. Records'
    BY <2>1 DEF Records
  <2> QED
    BY <2>2, <2>3, <2>4, <2>5
<1>11. CASE ChildEnds
  <2>1. Tables'
    BY <1>11 DEF ChildEnds, Tables, ServerForgets
  <2>2. Stages'
    BY <1>0, <1>11 DEF ChildEnds, Stages
  <2>3. Records'
    BY <1>11 DEF ChildEnds, Records
  <2> QED
    BY <1>11, <2>1, <2>2, <2>3 DEF ChildEnds, ShellIsAccounts
<1>12. CASE ServerDies
  <2>1. Tables'
    BY <1>12 DEF ServerDies, Tables, ServerForgets
  <2>2. Stages'
    BY <1>0, <1>12 DEF ServerDies, Stages
  <2>3. Records'
    BY <1>12 DEF ServerDies, Records
  <2>4. ShellIsAccounts'
    BY <1>0, <1>12, ShellKept DEF ServerDies
  <2> QED
    BY <2>1, <2>2, <2>3, <2>4
<1> QED
  BY <1>1, <1>2, <1>3, <1>4, <1>5, <1>6, <1>7, <1>8, <1>9, <1>10, <1>11, <1>12
     DEF LoginNext, Serve, Shell
(* The search for the key is over before anything of the login exists. *)
LEMMA LoginStays == AuthInv /\ LoginInv /\ AuthNext /\ UNCHANGED loginVars => LoginInv'
<1> SUFFICES ASSUME AuthInv, LoginInv, AuthNext, UNCHANGED loginVars PROVE LoginInv'
  OBVIOUS
<1>1. UNCHANGED <<n, chan, tty, ready, child, cpc, cn, seen, record, ttyowner>>
  BY DEF loginVars
<1>2. chan = "none" /\ cpc = "none"
  BY AuthFirst DEF LoginInv, Stages
<1>3. Tables'
  BY <1>1 DEF LoginInv, Tables, ServerForgets
<1>4. Stages'
  BY <1>1, <1>2 DEF LoginInv, Stages
<1>5. Records'
  BY <1>1 DEF LoginInv, Records
<1> QED
  BY <1>1, <1>2, <1>3, <1>4, <1>5 DEF LoginInv, ShellIsAccounts

(* A step that changes nothing keeps the invariant of a login. *)
LEMMA LoginSame == LoginInv /\ UNCHANGED vars => LoginInv'
<1> SUFFICES ASSUME LoginInv, UNCHANGED vars PROVE LoginInv'
  OBVIOUS
<1>1. /\ UNCHANGED <<n, chan, tty, ready, child, cpc, cn, seen, record, ttyowner>>
      /\ UNCHANGED <<auth, server, passwd>>
  BY DEF vars, loginVars, authVars
<1>2. Tables'
  BY <1>1 DEF LoginInv, Tables, ServerForgets
<1>3. Stages'
  BY <1>1 DEF LoginInv, Stages
<1>4. Records'
  BY <1>1 DEF LoginInv, Records
<1>5. ShellIsAccounts'
  BY <1>1, ShellKept DEF LoginInv
<1> QED
  BY <1>2, <1>3, <1>4, <1>5 DEF LoginInv

(* Both parts of the login's invariant hold throughout. *)
LEMMA LoginAlways == Spec => [](AuthInv /\ LoginInv)
<1>1. Init => LoginInv
  BY LoginStart
<1>2. AuthInv /\ LoginInv /\ [Next]_vars => LoginInv'
  BY LoginStep, LoginStays, LoginSame DEF Next
<1> QED
  BY <1>1, <1>2, AuthAlways, PTL DEF Spec

(* The state keeps its type, and so do both tables: the NULL that ends the
   array lies within its bounds and no variable is listed twice, however long
   the arrays and the values are (newenv.c:69). *)
THEOREM LoginTypes == Spec => []LoginTypeOK
<1>1. AuthInv /\ LoginInv => LoginTypeOK
  <2> SUFFICES ASSUME AuthInv, LoginInv PROVE LoginTypeOK
    OBVIOUS
  <2>1. auth \in {"idle", "waiting", "granted", "refused"}
    BY DEF AuthInv, Setting
  <2>2. (n = newenv_purge \/ TableSound(n)) /\ TableSound(cn)
    BY DEF LoginInv, Tables, Table
  <2> QED
    BY <2>1, <2>2 DEF LoginInv, Stages, Records, LoginTypeOK
<1> QED
  BY <1>1, LoginAlways, PTL

(* A program is started only for an accepted key, as the account, with the
   rights under which the key was looked for, with the account's variables
   and values whatever a client sent before; the server keeps none of them,
   and no terminal stays on record without its process (channel_drop.c:14,
   newenv.c:33, channel.c:489). *)
THEOREM ShellIsSafe == Spec => []ShellSafe
<1>1. AuthInv /\ LoginInv => ShellSafe
  <2> SUFFICES ASSUME AuthInv, LoginInv PROVE ShellSafe
    OBVIOUS
  <2>1. ShellIsAccounts /\ ServerForgets
    BY DEF LoginInv, Tables
  <2>2. ShellNeedsKey
    <3> SUFFICES ASSUME cpc = "shell" PROVE ShellNeedsKey
      BY DEF ShellNeedsKey
    <3>1. auth = "granted" /\ Acts /\ passwd \in getpwnam
      BY DEF LoginInv, Stages, AuthInv, Decided, Vetted, Setting
    <3>2. PICK p \in passwd : ActsFor(prober, p, server)
      BY <3>1 DEF Acts
    <3>3. PICK q \in passwd : ActsFor(child, q, server)
      BY <2>1 DEF ShellIsAccounts
    <3>4. p.uid = Owner.uid /\ q.uid = Owner.uid
      BY <3>1, AccountOnly
    <3> QED
      BY <3>1, <3>2, <3>3, <3>4 DEF ShellNeedsKey, ActsFor
  <2>3. RecordHasProcess
    BY DEF LoginInv, Records, Stages, RecordHasProcess
  <2> QED
    BY <2>1, <2>2, <2>3 DEF ShellSafe
<1> QED
  BY <1>1, LoginAlways, PTL

(* A variable that is set, replaced or refused changes no other one
   (newenv.c:71). *)
THEOREM OnlyNamedChanges == Spec => OnlyNamedVariable
<1> DEFINE Kept(s) == Others(n', s) = Others(n, s)
<1>1. ASSUME NEW x \in {1, 2}, NEW s, s # "", NEW v, Table(n), n' = newenv_env_(x, n, s, v).env
      PROVE  Kept(s)
  <2>1. Updated(n, newenv_env_(x, n, s, v), s, v)
    BY <1>1, UpdatedTable
  <2>2. \/ newenv_exec(n') = Others(n, s) \cup {Entry(s, v)}
        \/ newenv_exec(n') = Others(n, s)
    BY <1>1, <2>1 DEF Updated
  <2> QED
    BY <2>2 DEF Others, Entry
<1>2. LoginInv /\ [Next]_vars =>
        [n' # n /\ n' # newenv_purge /\ chan = "open" =>
           \E s \in EnvNames \cup {"TERM"} : Kept(s)]_vars
  <2> SUFFICES ASSUME LoginInv, Next, n' # n, n' # newenv_purge, chan = "open"
               PROVE  \E s \in EnvNames \cup {"TERM"} : Kept(s)
    BY DEF vars, loginVars
  <2>1. channel_openterminal \/ channel_env
    BY DEF Next, loginVars, LoginNext, Serve, Shell, channel_open, channel_exec, channel_close,
           forkpty_wait, channel_waitnohang, forkpty_child, logsys_login, exec_child, ChildEnds,
           ServerDies
  <2>2. Table(n)
    BY DEF LoginInv, Tables
  <2>3. CASE channel_openterminal
    <3>1. PICK t \in Terms : n' = newenv_env_(1, n, "TERM", t).env
      BY <2>3 DEF channel_openterminal, newenv_env
    <3>2. Kept("TERM")
      BY <1>1, <2>2, <3>1
    <3> QED
      BY <3>2
  <2>4. CASE channel_env
    <3>1. PICK s \in EnvNames, v \in Terms : n' = newenv_env_(2, n, s, v).env
      BY <2>4 DEF channel_env, newenv_lowenv
    <3>2. Kept(s)
      BY <1>1, <2>2, <3>1, LoginAssumption
    <3> QED
      BY <3>2
  <2> QED
    BY <2>1, <2>3, <2>4
<1>3. LoginInv /\ [Next]_vars =>
        [n' # n /\ n' # newenv_purge /\ chan = "open" =>
           \E s \in EnvNames \cup {"TERM"} :
             LET others(t) == {x \in newenv_exec(t) : x.name # s}
             IN others(n') = others(n)]_vars
  BY <1>2 DEF Others
<1> QED
  BY <1>3, LoginAlways, PTL DEF Spec, OnlyNamedVariable
=============================================================================
