---------------------------- MODULE HostKeysProofs ----------------------------
(***************************************************************************)
(* What holds of the key files and of the signing process for every length *)
(* of a file and any number of makekeys, crashes and signatures.           *)
(*                                                                         *)
(* A success is durable because a makekey that is still running has not    *)
(* reported one (Unreported), and because every file of one that has is    *)
(* synced to its end (Durable); the public key is safe before the secret   *)
(* one is opened (FirstIsSafe). There is one identity because the files of *)
(* a directory come from the makekey that made it (OneMaker): so what the  *)
(* server loaded, sent and showed since the machine started is the one key *)
(* in the files (LoadedIsStored), which nothing replaces until it stops.   *)
(***************************************************************************)
EXTENDS HostKeys, TLAPS

DiskTypes ==
  /\ dir \in BOOLEAN
  /\ file \in [Kinds -> [there : BOOLEAN, secret : BOOLEAN, len : 0..Whole, key : 0..Makes]]
  /\ synced \in [Kinds -> 0..Whole]
  /\ \A k \in Kinds : synced[k] <= file[k].len /\ (file[k].there \/ file[k].len = 0)

(* A file needs its directory. *)
InDir == \A k \in Kinds : file[k].there => dir

MakeTypes ==
  /\ made \in 0..Makes /\ writing \in 0..Whole /\ cur \in Kinds
  /\ mk \in {"idle", "open", "write", "sync"}

SignTypes ==
  /\ pipe \in 0..Whole /\ got \in 0..Whole /\ pipe + got <= Whole
  /\ server \in {"off", "loading", "serving", "signing", "dead"}
  /\ signer \in {"none", "load", "write", "end", "exit", "failed"}

TypeOK == DiskTypes /\ MakeTypes /\ SignTypes /\ InDir

Unreported ==
  /\ succeeded \subseteq 1..made
  /\ mk # "idle" => made \notin succeeded /\ made # 0 /\ dir

(* What is open is there, and what makekey has written of it is in it. *)
Progress ==
  /\ mk \in {"write", "sync"} => file[cur].there /\ writing <= file[cur].len
  /\ mk = "sync" => writing = Whole

Durable == \A k \in Kinds : file[k].there /\ file[k].key \in succeeded => synced[k] = Whole

FirstIsSafe == mk # "idle" /\ cur = "sk" /\ file["pk"].there => synced["pk"] = Whole

OneMaker ==
  /\ mk # "idle" => \A k \in Kinds : file[k].there => file[k].key = made
  /\ file["pk"].there /\ file["sk"].there => file["pk"].key = file["sk"].key

(* v is the key in a public key file that is whole. *)
Stored(v) == file["pk"].there /\ file["pk"].len = Whole /\ file["pk"].key = v

LoadedIsStored ==
  /\ pub # 0 => Stored(pub)
  /\ \A v \in shown : Stored(v)
  /\ \A r \in reply : Stored(r.by) /\ Stored(r.under)
  /\ signer \in {"write", "end", "exit"} => file["sk"].there /\ skey = file["sk"].key
  /\ server = "signing" => pub # 0

OneChild == server \in {"off", "loading", "serving"} => signer = "none"

FilesInv == TypeOK /\ SecretPrivate /\ Unreported /\ Progress /\ Durable /\ FirstIsSafe
SignerInv == OneMaker /\ LoadedIsStored /\ OneChild
Inv == FilesInv /\ SignerInv

-----------------------------------------------------------------------------
(* The constants, as numbers. *)
LEMMA Constants == Whole \in Nat /\ Whole > 0 /\ Makes \in Nat
  BY HostKeysAssumption

(* The start of the program satisfies both halves (main_tinysshd_makekey.c,
   main_tinysshd.c: nothing was made, loaded or sent yet). *)
LEMMA InitInv == Init => Inv
<1> SUFFICES ASSUME Init PROVE Inv
  OBVIOUS
<1> USE Constants DEF Init, Kinds, NoFile
<1>1. TypeOK
  <2>1. DiskTypes
    <3>1. file \in [Kinds -> [there : BOOLEAN, secret : BOOLEAN, len : 0..Whole, key : 0..Makes]]
      OBVIOUS
    <3>2. synced \in [Kinds -> 0..Whole] /\ \A k \in Kinds : synced[k] <= file[k].len /\ file[k].len = 0
      OBVIOUS
    <3>3. dir \in BOOLEAN
      BY Zenon
    <3> QED
      BY <3>1, <3>2, <3>3 DEF DiskTypes
  <2>2. MakeTypes
    BY DEF MakeTypes
  <2>3. SignTypes
    BY DEF SignTypes
  <2>4. InDir
    BY DEF InDir
  <2> QED
    BY <2>1, <2>2, <2>3, <2>4 DEF TypeOK
<1>2. SecretPrivate /\ Unreported /\ Progress /\ Durable /\ FirstIsSafe
  BY DEF SecretPrivate, Unreported, Progress, Durable, FirstIsSafe
<1>3. SignerInv
  BY DEF SignerInv, OneMaker, LoadedIsStored, OneChild
<1> QED
  BY <1>1, <1>2, <1>3 DEF Inv, FilesInv

(* Steps that leave the disk and makekey alone: all of the server's and its
   child's, printkey and the two of a connection's start. *)
LEMMA FilesUntouched ==
  ASSUME FilesInv, UNCHANGED <<diskVars, makeVars>>, TypeOK'
  PROVE  FilesInv'
  BY DEF FilesInv, SecretPrivate, Unreported, Progress, Durable, FirstIsSafe, diskVars, makeVars

(* Only what makekey saves, and a crash, change a file
   (main_tinysshd_makekey.c:55, savesync.c:15, writeall.c). *)
LEMMA FilesStep == FilesInv /\ [Next]_vars => FilesInv'
<1> SUFFICES ASSUME FilesInv, [Next]_vars PROVE FilesInv'
  OBVIOUS
<1> USE Constants DEF Kinds
<1>1. CASE makekey_mkdir
  <2>1. TypeOK'
    <3>1. DiskTypes' /\ InDir'
      <4>1. file' = file /\ synced' = synced
        BY <1>1 DEF makekey_mkdir
      <4>2. dir' = TRUE \/ dir' = dir
        BY <1>1 DEF makekey_mkdir
      <4>3. dir \in BOOLEAN /\ DiskTypes /\ InDir
        BY DEF FilesInv, TypeOK, DiskTypes
      <4> QED
        BY <4>1, <4>2, <4>3, Zenon DEF DiskTypes, InDir
    <3>2. MakeTypes' /\ SignTypes'
      BY <1>1 DEF FilesInv, TypeOK, MakeTypes, SignTypes, makekey_mkdir, serverVars, signVars
    <3> QED
      BY <3>1, <3>2 DEF TypeOK
  <2>2. SecretPrivate' /\ Progress' /\ Durable' /\ FirstIsSafe'
    BY <1>1 DEF FilesInv, SecretPrivate, Progress, Durable, FirstIsSafe, makekey_mkdir
  <2>3. Unreported'
    BY <1>1 DEF FilesInv, TypeOK, DiskTypes, MakeTypes, SignTypes, InDir, Unreported, makekey_mkdir
  <2> QED
    BY <2>1, <2>2, <2>3 DEF FilesInv
<1>2. CASE makekey_create /\ open_write
  <2>1. TypeOK'
    <3>1. DiskTypes'
      <4> DEFINE new == [there |-> TRUE, secret |-> cur = "sk", len |-> 0, key |-> made]
      <4>1. new \in [there : BOOLEAN, secret : BOOLEAN, len : 0..Whole, key : 0..Makes]
        BY DEF FilesInv, TypeOK, MakeTypes
      <4>2. file' = [file EXCEPT ![cur] = IF @.there THEN @ ELSE new]
        BY <1>2 DEF open_write
      <4>3. cur \in Kinds /\ DiskTypes /\ dir' = dir /\ synced' = synced /\ new.len = 0 /\ new.there
        BY <1>2 DEF FilesInv, TypeOK, MakeTypes, makekey_create, open_write
      <4> HIDE DEF new
      <4>4. file' \in [Kinds -> [there : BOOLEAN, secret : BOOLEAN, len : 0..Whole, key : 0..Makes]]
        BY <4>1, <4>2, <4>3 DEF DiskTypes
      <4>5. \A k \in Kinds : synced'[k] <= file'[k].len /\ (file'[k].there \/ file'[k].len = 0)
        BY <4>1, <4>2, <4>3 DEF DiskTypes
      <4> QED
        BY <4>3, <4>4, <4>5 DEF DiskTypes
    <3>2. InDir'
      BY <1>2, Zenon DEF FilesInv, Unreported, InDir, makekey_create, open_write
    <3>3. MakeTypes' /\ SignTypes'
      BY <1>2 DEF FilesInv, TypeOK, MakeTypes, SignTypes, makekey_create, open_write, serverVars, signVars
    <3> QED
      BY <3>1, <3>2, <3>3 DEF TypeOK
  <2>2. SecretPrivate'
    BY <1>2 DEF FilesInv, TypeOK, DiskTypes, MakeTypes, SignTypes, InDir, SecretPrivate, open_write
  <2>3. Unreported' /\ Progress'
    BY <1>2 DEF FilesInv, TypeOK, DiskTypes, MakeTypes, SignTypes, InDir, Unreported, Progress, makekey_create, open_write
  <2>4. Durable'
    BY <1>2 DEF FilesInv, TypeOK, DiskTypes, MakeTypes, SignTypes, InDir, Unreported, Durable, open_write
  <2>5. FirstIsSafe'
    BY <1>2 DEF FilesInv, TypeOK, DiskTypes, MakeTypes, SignTypes, InDir, FirstIsSafe, open_write
  <2> QED
    BY <2>1, <2>2, <2>3, <2>4, <2>5 DEF FilesInv
<1>3. CASE makekey_create /\ writeall
  <2>1. PICK w \in 1..(Whole - writing) :
          /\ writing' = writing + w
          /\ file' = [file EXCEPT ![cur].key = made,
                        ![cur].len = IF @ < writing' THEN writing' ELSE @]
    BY <1>3 DEF writeall
  <2>2. TypeOK'
    BY <1>3, <2>1 DEF FilesInv, TypeOK, DiskTypes, MakeTypes, SignTypes, InDir, Progress, makekey_create, writeall, serverVars, signVars
  <2>3. SecretPrivate'
    BY <2>1 DEF FilesInv, TypeOK, DiskTypes, MakeTypes, SignTypes, InDir, SecretPrivate
  <2>4. Unreported' /\ Progress'
    BY <1>3, <2>1 DEF FilesInv, TypeOK, DiskTypes, MakeTypes, SignTypes, InDir, Unreported, Progress, makekey_create, writeall
  <2>5. Durable' /\ FirstIsSafe'
    BY <1>3, <2>1 DEF FilesInv, TypeOK, DiskTypes, MakeTypes, SignTypes, InDir, Unreported, Progress, Durable, FirstIsSafe, writeall
  <2> QED
    BY <2>2, <2>3, <2>4, <2>5 DEF FilesInv
<1>4. CASE makekey_create /\ writesync
  <2>1. file[cur].len = Whole
    BY <1>4 DEF FilesInv, TypeOK, DiskTypes, MakeTypes, SignTypes, InDir, Progress, writesync
  <2>2. TypeOK'
    BY <1>4 DEF FilesInv, TypeOK, DiskTypes, MakeTypes, SignTypes, InDir, makekey_create, writesync, serverVars, signVars
  <2>3. SecretPrivate' /\ Unreported' /\ Progress'
    BY <1>4 DEF FilesInv, TypeOK, DiskTypes, MakeTypes, SignTypes, InDir, SecretPrivate, Unreported, Progress, makekey_create, writesync
  <2>4. Durable' /\ FirstIsSafe'
    BY <1>4, <2>1 DEF FilesInv, TypeOK, DiskTypes, MakeTypes, SignTypes, InDir, Unreported, Durable, FirstIsSafe, writesync
  <2> QED
    BY <2>2, <2>3, <2>4 DEF FilesInv
<1>5. CASE makekey_dies
  BY <1>5 DEF FilesInv, TypeOK, DiskTypes, MakeTypes, SignTypes, InDir, SecretPrivate, Unreported, Progress, Durable, FirstIsSafe, makekey_dies,
              diskVars, serverVars, signVars
<1>6. CASE Crash
  <2>1. PICK lost \in SUBSET Kinds, left \in [Kinds -> 0..Whole] :
          /\ \A k \in Kinds : left[k] \in synced[k]..file[k].len
          /\ file' = [k \in Kinds |->
                        IF k \in lost \/ ~dir' \/ ~file[k].there THEN NoFile
                        ELSE [file[k] EXCEPT !.len = left[k]]]
    BY <1>6 DEF Crash
  <2>2. TypeOK'
    <3>1. dir' \in BOOLEAN
      BY <1>6, Zenon DEF FilesInv, TypeOK, DiskTypes, Crash
    <3>2. file' \in [Kinds -> [there : BOOLEAN, secret : BOOLEAN, len : 0..Whole, key : 0..Makes]]
      BY <2>1 DEF FilesInv, TypeOK, DiskTypes, NoFile
    <3>3. synced' = [k \in Kinds |-> file'[k].len]
      BY <1>6 DEF Crash
    <3>4. DiskTypes'
      <4>1. \A k \in Kinds : file'[k].there \/ file'[k].len = 0
        BY <2>1 DEF FilesInv, TypeOK, DiskTypes, NoFile
      <4> QED
        BY <3>1, <3>2, <3>3, <4>1 DEF DiskTypes
    <3>5. InDir'
      BY <2>1, <1>6 DEF FilesInv, TypeOK, DiskTypes, InDir, Crash, NoFile
    <3>6. MakeTypes' /\ SignTypes'
      BY <1>6 DEF FilesInv, TypeOK, MakeTypes, SignTypes, Crash
    <3> QED
      BY <3>4, <3>5, <3>6 DEF TypeOK
  <2>3. SecretPrivate' /\ Unreported' /\ Progress' /\ FirstIsSafe'
    BY <1>6, <2>1 DEF FilesInv, TypeOK, DiskTypes, MakeTypes, SignTypes, InDir, SecretPrivate, Unreported, Progress, FirstIsSafe, Crash, NoFile
  <2>4. Durable'
    BY <1>6, <2>1 DEF FilesInv, TypeOK, DiskTypes, MakeTypes, SignTypes, InDir, Durable, Crash, NoFile
  <2> QED
    BY <2>2, <2>3, <2>4 DEF FilesInv
<1>7. CASE printkey \/ StartServer \/ load_publickey \/ subprocess_sign
  <2>1. UNCHANGED <<diskVars, makeVars>>
    BY <1>7 DEF printkey, StartServer, load_publickey, subprocess_sign
  <2>2. TypeOK'
    BY <1>7, <2>1 DEF FilesInv, TypeOK, DiskTypes, MakeTypes, SignTypes, InDir, diskVars, makeVars, serverVars, signVars,
                      printkey, StartServer, load_publickey, subprocess_sign
  <2> QED
    BY <2>1, <2>2, FilesUntouched
<1>8. CASE Signer \/ Parent \/ OrphanEnds
  <2>1. UNCHANGED <<diskVars, makeVars>>
    BY <1>8 DEF Signer, Parent, OrphanEnds, sign_child_load, sign_child_write, sign_child_end,
                sign_readall, sign_waitpid
  <2>2. TypeOK'
    BY <1>8, <2>1 DEF FilesInv, TypeOK, DiskTypes, MakeTypes, SignTypes, InDir, diskVars, makeVars, serverVars, Signer, Parent, OrphanEnds,
                      sign_child_load, sign_child_write, sign_child_end, sign_readall, sign_waitpid
  <2> QED
    BY <2>1, <2>2, FilesUntouched
<1>9. CASE UNCHANGED vars
  BY <1>9 DEF vars, FilesInv, TypeOK, DiskTypes, MakeTypes, SignTypes, InDir, SecretPrivate, Unreported, Progress, Durable, FirstIsSafe
<1> QED
  BY <1>1, <1>2, <1>3, <1>4, <1>5, <1>6, <1>7, <1>8, <1>9 DEF Next, Makekey, makekey_create, savesync

-----------------------------------------------------------------------------
(* Nothing that a running machine does takes a stored key away, or replaces
   it: mkdir refuses a directory that is there, so makekey writes over no
   file but its own (main_tinysshd_makekey.c:57). *)
LEMMA StoredStays ==
  ASSUME FilesInv, OneMaker, Makekey \/ makekey_dies, NEW v, Stored(v)
  PROVE  Stored(v)'
<1> USE Constants DEF Kinds
<1>1. CASE makekey_mkdir \/ makekey_dies
  BY <1>1 DEF Stored, makekey_mkdir, makekey_dies, diskVars
<1>2. CASE open_write
  BY <1>2 DEF FilesInv, TypeOK, DiskTypes, MakeTypes, Stored, open_write
<1>3. CASE writeall
  BY <1>3 DEF FilesInv, TypeOK, DiskTypes, MakeTypes, Progress, OneMaker, Stored, writeall
<1>4. CASE writesync
  BY <1>4 DEF Stored, writesync
<1> QED
  BY <1>1, <1>2, <1>3, <1>4 DEF Makekey, makekey_create, savesync

(* The files in the directory stay those of one makekey. *)
LEMMA OneMakerStep == FilesInv /\ OneMaker /\ [Next]_vars => OneMaker'
<1> SUFFICES ASSUME FilesInv, OneMaker, [Next]_vars PROVE OneMaker'
  OBVIOUS
<1> USE Constants DEF Kinds
<1>1. CASE makekey_mkdir
  <2>1. CASE ~dir
    <3>1. \A k \in Kinds : ~file[k].there
      BY <2>1, Zenon DEF FilesInv, TypeOK, InDir
    <3> QED
      BY <1>1, <3>1 DEF OneMaker, makekey_mkdir
  <2>2. CASE dir
    BY <1>1, <2>2 DEF OneMaker, makekey_mkdir
  <2> QED
    BY <2>1, <2>2
<1>2. CASE makekey_create /\ open_write
  BY <1>2 DEF FilesInv, TypeOK, DiskTypes, MakeTypes, OneMaker, makekey_create, open_write
<1>3. CASE makekey_create /\ writeall
  BY <1>3 DEF FilesInv, TypeOK, DiskTypes, MakeTypes, OneMaker, makekey_create, writeall
<1>4. CASE makekey_create /\ writesync
  BY <1>4 DEF OneMaker, makekey_create, writesync
<1>5. CASE makekey_dies
  BY <1>5 DEF OneMaker, makekey_dies, diskVars
<1>6. CASE Crash
  BY <1>6 DEF FilesInv, TypeOK, DiskTypes, OneMaker, Crash, NoFile
<1>7. CASE UNCHANGED <<diskVars, makeVars>>
  BY <1>7 DEF OneMaker, diskVars, makeVars
<1> QED
  BY <1>1, <1>2, <1>3, <1>4, <1>5, <1>6, <1>7
  DEF Next, vars, diskVars, makeVars, Makekey, makekey_create, savesync, printkey, StartServer,
      load_publickey, subprocess_sign, Signer, Parent, OrphanEnds, sign_child_load, sign_child_write,
      sign_child_end, sign_readall, sign_waitpid

(* What was loaded, shown and sent since the machine started is the key in the
   files (main_tinysshd.c, subprocess_sign.c:33), and a server that serves has
   no child. *)
LEMMA SignerStep == Inv /\ [Next]_vars => SignerInv'
<1> SUFFICES ASSUME Inv, [Next]_vars PROVE LoadedIsStored' /\ OneChild'
  BY OneMakerStep DEF Inv, SignerInv
<1> USE Constants DEF Kinds
<1>1. CASE Makekey \/ makekey_dies
  <2>1. UNCHANGED <<server, pub, reply, signer, skey, shown>>
    BY <1>1 DEF Makekey, makekey_mkdir, makekey_create, makekey_dies, serverVars, signVars
  <2>2. \A v : Stored(v) => Stored(v)'
    BY <1>1, StoredStays DEF Inv, SignerInv
  <2>3. file["sk"].there => file["sk"].there' /\ file["sk"].key' = file["sk"].key
    BY <1>1 DEF Inv, FilesInv, TypeOK, DiskTypes, MakeTypes, SignerInv, OneMaker, Makekey, makekey_mkdir,
                makekey_create, makekey_dies, savesync, open_write, writeall, writesync, diskVars
  <2>4. LoadedIsStored'
    BY <2>1, <2>2, <2>3 DEF Inv, SignerInv, LoadedIsStored
  <2> QED
    BY <2>1, <2>4 DEF Inv, SignerInv, OneChild
<1>2. CASE printkey
  <2>1. Stored(Loaded("pk"))
    BY <1>2 DEF Inv, FilesInv, TypeOK, DiskTypes, printkey, Loads, Loaded, Stored
  <2> QED
    BY <1>2, <2>1 DEF Inv, SignerInv, LoadedIsStored, OneChild, Stored, printkey, diskVars, serverVars,
                      signVars
<1>3. CASE Crash
  BY <1>3 DEF Crash, LoadedIsStored, OneChild
<1>4. CASE StartServer
  BY <1>4 DEF Inv, SignerInv, LoadedIsStored, OneChild, Stored, StartServer, diskVars, signVars
<1>5. CASE load_publickey
  <2>1. Loads("pk") => Stored(Loaded("pk"))
    BY DEF Inv, FilesInv, TypeOK, DiskTypes, Loads, Loaded, Stored
  <2> QED
    BY <1>5, <2>1 DEF Inv, SignerInv, LoadedIsStored, OneChild, Stored, load_publickey, diskVars,
                      signVars
<1>6. CASE subprocess_sign
  BY <1>6 DEF Inv, SignerInv, LoadedIsStored, OneChild, Stored, subprocess_sign, diskVars
<1>7. CASE sign_child_load
  BY <1>7 DEF Inv, FilesInv, TypeOK, DiskTypes, SignerInv, LoadedIsStored, OneChild, Stored, Loads, Loaded,
              sign_child_load, diskVars, serverVars
<1>8. CASE sign_child_write \/ sign_child_end
  BY <1>8 DEF Inv, SignerInv, LoadedIsStored, OneChild, Stored, sign_child_write, sign_child_end,
              diskVars, serverVars
<1>9. CASE sign_readall
  BY <1>9 DEF Inv, SignerInv, LoadedIsStored, OneChild, Stored, sign_readall, diskVars
<1>10. CASE sign_waitpid
  <2>1. signer = "exit" => Stored(skey) /\ Stored(pub)
    BY <1>10 DEF Inv, SignerInv, OneMaker, LoadedIsStored, Stored, sign_waitpid
  <2>2. UNCHANGED <<file, pub, shown>> /\ signer' = "none" /\ server' \in {"serving", "dead"}
    BY <1>10 DEF sign_waitpid, diskVars
  <2>3. \A r \in reply' : r \in reply \/ (signer = "exit" /\ r.by = skey /\ r.under = pub)
    BY <1>10 DEF sign_waitpid
  <2> QED
    BY <2>1, <2>2, <2>3 DEF Inv, SignerInv, LoadedIsStored, OneChild, Stored
<1>11. CASE OrphanEnds
  BY <1>11 DEF Inv, SignerInv, LoadedIsStored, OneChild, Stored, OrphanEnds, diskVars, serverVars
<1>12. CASE UNCHANGED vars
  BY <1>12 DEF Inv, SignerInv, LoadedIsStored, OneChild, Stored, vars
<1> QED
  BY <1>1, <1>2, <1>3, <1>4, <1>5, <1>6, <1>7, <1>8, <1>9, <1>10, <1>11, <1>12
  DEF Next, Signer, Parent

-----------------------------------------------------------------------------
(* The invariant holds in every state. *)
LEMMA Invariance == Spec => []Inv
<1>1. Inv /\ [Next]_vars => Inv'
  BY FilesStep, SignerStep DEF Inv
<1> QED
  BY InitInv, <1>1, PTL DEF Spec

(* Key files are private and of their type, and those of a makekey that
   reported success are whole, with failures and crashes anywhere
   (main_tinysshd_makekey.c:72, savesync.c:15). *)
THEOREM FilesAreSound == Spec => []FilesSound
<1>1. Inv => FilesSound
  <2> SUFFICES ASSUME Inv PROVE FilesSound
    OBVIOUS
  <2>1. HostKeysTypeOK
    BY Constants DEF Inv, FilesInv, TypeOK, DiskTypes, MakeTypes, SignTypes, InDir, HostKeysTypeOK, Kinds
  <2>2. SuccessIsDurable
    BY Constants DEF Inv, FilesInv, TypeOK, DiskTypes, Durable, SuccessIsDurable, Kinds
  <2> QED
    BY <2>1, <2>2 DEF Inv, FilesInv, FilesSound
<1> QED
  BY Invariance, <1>1, PTL

(* Every signature sent is by the secret key of the public key it was sent
   with, and of every one that was shown; and no process of a signature is left
   to a server that goes on (subprocess_sign.c:33, subprocess_sign.c:88). *)
THEOREM OneKeySigns == Spec => []SignerSound
<1>1. Inv => SignerSound
  BY DEF Inv, SignerInv, LoadedIsStored, OneChild, Stored, SignerSound, OneIdentity, NoSignerLeft
<1> QED
  BY Invariance, <1>1, PTL

=============================================================================
