------------------------------- MODULE HostKeys -------------------------------
(***************************************************************************)
(* The server's long-term key: made by tinysshd-makekey                    *)
(* (main_tinysshd_makekey.c, savesync.c, writeall.c), shown by             *)
(* tinysshd-printkey, loaded at the start of every connection              *)
(* (main_tinysshd.c, load.c, readall.c) and used in a process of its own   *)
(* (subprocess_sign.c).                                                    *)
(*                                                                         *)
(* Each step of makekey that touches the disk is an action, since the      *)
(* machine may stop between any two. What was written and not yet synced   *)
(* may be lost; so may names, as the code syncs files and never the        *)
(* directory. A key is known by the makekey that generated it.             *)
(***************************************************************************)
EXTENDS Naturals, FiniteSets

CONSTANTS
  Whole,      \* the length of a key file and of a signature
  Makes,      \* bound: how many times makekey is run
  Crashes,    \* bound: how many times the machine stops
  Rounds      \* bound: signatures asked of one server

ASSUME HostKeysAssumption == Whole \in Nat \ {0} /\ {Makes, Crashes, Rounds} \subseteq Nat

VARIABLES
  dir,      \* the key directory exists
  file,     \* "pk" and "sk": [there, secret, len, key]
  synced,   \* how much of each is on disk for good
  made,     \* makekeys run
  mk,       \* the step the running makekey is at
  succeeded,\* the makekeys that ended with success
  cur,      \* the file it saves
  writing,  \* how much of the current file it has written
  crashes,
  server,   \* "off", "loading", "serving", "signing", "dead"
  pub,      \* the public key it loaded, 0 for none
  signer,   \* its child: "none", "load", "write", "exit", "failed"
  skey,     \* the secret key the child loaded, 0 for none
  pipe,     \* how much of the signature is in the pipe
  got,      \* how much the server has read
  rounds,
  reply,    \* the signatures sent, each as [by, under]
  shown     \* the public keys anybody was shown since the machine started

vars == <<dir, file, synced, made, mk, cur, writing, succeeded, crashes, server, pub,
          signer, skey, pipe, got, rounds, reply, shown>>
diskVars == <<dir, file, synced>>
makeVars == <<made, mk, cur, writing, succeeded>>
signVars == <<signer, skey, pipe, got>>
serverVars == <<server, pub, rounds, reply>>

Kinds == {"pk", "sk"}
NoFile == [there |-> FALSE, secret |-> FALSE, len |-> 0, key |-> 0]

Init ==
  /\ dir = FALSE
  /\ file = [k \in Kinds |-> NoFile] /\ synced = [k \in Kinds |-> 0]
  /\ made = 0 /\ mk = "idle" /\ cur = "pk" /\ writing = 0 /\ succeeded = {}
  /\ crashes = 0
  /\ server = "off" /\ pub = 0 /\ rounds = 0 /\ reply = {} /\ shown = {}
  /\ signer = "none" /\ skey = 0 /\ pipe = 0 /\ got = 0

-----------------------------------------------------------------------------
(* tinysshd-makekey: mkdir refuses a directory that is there, *)
makekey_mkdir ==
  /\ mk = "idle" /\ made < Makes
  /\ made' = made + 1 /\ writing' = 0 /\ cur' = "pk"
  /\ \/ ~dir /\ dir' = TRUE /\ mk' = "open"
     \/ mk' = "idle" /\ UNCHANGED dir
  /\ UNCHANGED <<file, synced, succeeded, crashes, serverVars, signVars, shown>>

(* open_write, under the umask set just before: it creates, but neither
   truncates nor insists on a new file. *)
open_write ==
  /\ mk = "open" /\ mk' = "write" /\ writing' = 0
  /\ file' = [file EXCEPT ![cur] =
                IF @.there THEN @
                ELSE [there |-> TRUE, secret |-> cur = "sk", len |-> 0, key |-> made]]
  /\ UNCHANGED <<cur, synced, succeeded>>

(* writeall: as much as write takes, again and again; a new byte replaces
   what the file held there. *)
writeall ==
  /\ mk = "write"
  /\ \E w \in 1..(Whole - writing) :
       /\ writing' = writing + w
       /\ file' = [file EXCEPT ![cur].key = made,
                     ![cur].len = IF @ < writing' THEN writing' ELSE @]
  /\ mk' = IF writing' = Whole THEN "sync" ELSE mk
  /\ UNCHANGED <<cur, synced, succeeded>>

(* writesync's fsync; then the other file, or the end. *)
writesync_slip ==
  /\ mk = "sync"
  /\ mk' = (IF cur = "pk" THEN "open" ELSE "idle") /\ cur' = "sk"
  /\ succeeded' = IF cur = "pk" THEN succeeded ELSE succeeded \cup {made}
  /\ UNCHANGED <<file, writing, synced>>

writesync ==
  /\ mk = "sync"
  /\ synced' = [synced EXCEPT ![cur] = file[cur].len]
  /\ mk' = (IF cur = "pk" THEN "open" ELSE "idle") /\ cur' = "sk"
  /\ succeeded' = IF cur = "pk" THEN succeeded ELSE succeeded \cup {made}
  /\ UNCHANGED <<file, writing>>

savesync == open_write \/ writeall \/ writesync

makekey_create ==
  /\ savesync
  /\ UNCHANGED <<dir, made, crashes, serverVars, signVars, shown>>

(* die_fatal, or a signal, at any step; what was done so far stays. *)
makekey_dies ==
  /\ mk # "idle"
  /\ mk' = "idle"
  /\ UNCHANGED <<diskVars, made, cur, writing, succeeded, crashes, serverVars, signVars, shown>>

(* load: readall must find all the bytes asked for. What a shorter file would
   leave in the buffer is nobody's key: 0. *)
Loads_slip(k) == file[k].there

Loads(k) == file[k].there /\ file[k].len >= Whole

Loaded(k) == IF file[k].len >= Whole THEN file[k].key ELSE 0

printkey ==
  /\ dir /\ Loads("pk")
  /\ shown' = shown \cup {Loaded("pk")}
  /\ UNCHANGED <<diskVars, makeVars, crashes, serverVars, signVars>>

(* The machine stops: processes are gone, unsynced bytes and any name may
   be. *)
Crash ==
  /\ crashes < Crashes
  /\ crashes' = crashes + 1
  /\ dir' \in {FALSE, dir}
  /\ \E lost \in SUBSET Kinds : \E left \in [Kinds -> 0..Whole] :
       /\ \A k \in Kinds : left[k] \in synced[k]..file[k].len
       /\ file' = [k \in Kinds |->
                     IF k \in lost \/ ~dir' \/ ~file[k].there THEN NoFile
                     ELSE [file[k] EXCEPT !.len = left[k]]]
  /\ synced' = [k \in Kinds |-> file'[k].len]
  /\ mk' = "idle"
  /\ server' = "off" /\ pub' = 0 /\ rounds' = 0 /\ reply' = {} /\ shown' = {}
  /\ signer' = "none" /\ skey' = 0 /\ pipe' = 0 /\ got' = 0
  /\ UNCHANGED <<made, cur, writing, succeeded>>

-----------------------------------------------------------------------------
(* A connection starts. *)
StartServer ==
  /\ server \in {"off", "dead"} /\ signer = "none"
  /\ server' = "loading" /\ pub' = 0 /\ rounds' = 0
  /\ UNCHANGED <<diskVars, makeVars, crashes, signVars, reply, shown>>

(* chdir and load of the public key: no such file leaves the key unused,
   anything else, a short file included, ends the server. *)
load_publickey ==
  /\ server = "loading"
  /\ \/ dir /\ Loads("pk") /\ server' = "serving" /\ pub' = Loaded("pk")
        /\ shown' = shown \cup {pub'}
     \/ dir /\ ~file["pk"].there /\ server' = "serving" /\ UNCHANGED <<pub, shown>>
     \/ (~dir \/ (file["pk"].there /\ ~Loads("pk")))
        /\ server' = "dead" /\ UNCHANGED <<pub, shown>>
  /\ UNCHANGED <<diskVars, makeVars, crashes, signVars, rounds, reply>>

(* subprocess_sign: pipe and fork, either of which may fail. *)
subprocess_sign ==
  /\ server = "serving" /\ pub # 0 /\ rounds < Rounds
  /\ rounds' = rounds + 1
  /\ \/ server' = "signing" /\ signer' = "load"
     \/ server' = "dead" /\ UNCHANGED signer
  /\ pipe' = 0 /\ got' = 0 /\ skey' = 0
  /\ UNCHANGED <<diskVars, makeVars, crashes, pub, reply, shown>>

(* The child: chdir, load, sign, *)
sign_child_load ==
  /\ signer = "load"
  /\ \/ dir /\ Loads("sk") /\ signer' = "write" /\ skey' = Loaded("sk")
     \/ signer' = "failed" /\ UNCHANGED skey
  /\ UNCHANGED <<diskVars, makeVars, crashes, serverVars, pipe, got, shown>>

(* writeall of the signature; it may fail, or the child be killed, with part
   of it written; at the end global_die(0). *)
sign_child_write ==
  /\ signer = "write"
  /\ \/ \E w \in 1..(Whole - (pipe + got)) :
          pipe' = pipe + w /\ signer' = IF pipe' + got = Whole THEN "end" ELSE "write"
     \/ signer' = "failed" /\ UNCHANGED pipe
  /\ UNCHANGED <<diskVars, makeVars, crashes, serverVars, skey, got, shown>>

sign_child_end ==
  /\ signer = "end"
  /\ signer' \in {"exit", "failed"}
  /\ UNCHANGED <<diskVars, makeVars, crashes, serverVars, skey, pipe, got, shown>>

(* The server reads until it has a whole signature. The pipe ends when the
   child has: the server closed its own write end. A short signature is an
   error at once, and packet_kexdh's error ends the server. *)
WriterGone_slip == FALSE

WriterGone == signer \in {"exit", "failed"}

sign_readall ==
  /\ server = "signing" /\ got < Whole
  /\ \/ pipe > 0 /\ got' = got + pipe /\ pipe' = 0 /\ UNCHANGED server
     \/ pipe = 0 /\ WriterGone /\ server' = "dead" /\ UNCHANGED <<got, pipe>>
  /\ UNCHANGED <<diskVars, makeVars, crashes, pub, rounds, reply, signer, skey, shown>>

(* waitpid, then the reply if the child exited with 0. *)
sign_waitpid ==
  /\ server = "signing" /\ got = Whole
  /\ signer \in {"exit", "failed"}
  /\ \/ signer = "exit" /\ server' = "serving"
        /\ reply' = reply \cup {[by |-> skey, under |-> pub]}
     \/ signer = "failed" /\ server' = "dead" /\ UNCHANGED reply
  /\ signer' = "none"
  /\ UNCHANGED <<diskVars, makeVars, crashes, pub, rounds, skey, pipe, got, shown>>

(* Init reaps what a dead server left behind. *)
OrphanEnds ==
  /\ server = "dead" /\ signer \in {"exit", "failed"}
  /\ signer' = "none"
  /\ UNCHANGED <<diskVars, makeVars, crashes, serverVars, skey, pipe, got, shown>>

Makekey == makekey_mkdir \/ makekey_create
Signer == sign_child_load \/ sign_child_write \/ sign_child_end
Parent == sign_readall \/ sign_waitpid

Next ==
  \/ Makekey
  \/ makekey_dies
  \/ printkey
  \/ Crash
  \/ StartServer
  \/ load_publickey
  \/ subprocess_sign
  \/ Signer
  \/ Parent
  \/ OrphanEnds

(* The processes of one signature run on while the machine does. *)
Spec == Init /\ [][Next]_vars /\ WF_vars(Signer) /\ WF_vars(Parent)

-----------------------------------------------------------------------------
(* Types. Two facts about the disk belong to them: files need the directory,
   and no more of one is safe than there is of it. *)
HostKeysTypeOK ==
  /\ dir \in BOOLEAN
  /\ file \in [Kinds -> [there : BOOLEAN, secret : BOOLEAN, len : 0..Whole, key : 0..Makes]]
  /\ made \in 0..Makes /\ writing \in 0..Whole
  /\ pipe + got \in 0..Whole
  /\ server \in {"off", "loading", "serving", "signing", "dead"}
  /\ signer \in {"none", "load", "write", "end", "exit", "failed"}
  /\ \A k \in Kinds : (file[k].there => dir) /\ synced[k] <= file[k].len

(* The secret key is never readable by others, not even while it is being
   written (main_tinysshd_makekey.c:72). *)
SecretPrivate == file["sk"].there => file["sk"].secret

(* After makekey reported success, a key file that is there is a whole one,
   through any later crash (savesync.c:15). *)
SuccessIsDurable ==
  \A k \in Kinds : file[k].there /\ file[k].key \in succeeded => file[k].len = Whole

(* What savesync and open_write promise of the two key files, with failures
   and crashes anywhere. *)
FilesSound == HostKeysTypeOK /\ SecretPrivate /\ SuccessIsDurable

(* Whatever signature was sent verifies under the public key it was sent
   with, and under every one that was shown: the two files are one pair. *)
OneIdentity ==
  \A r \in reply : r.by = r.under /\ shown \subseteq {r.by}

(* A server that goes on serving has no signer left, dead or alive: the early
   return of subprocess_sign.c:88 leaves a child only to a server that ends. *)
NoSignerLeft == server = "serving" => signer = "none"

(* What makekey, printkey and subprocess_sign make of the two files together:
   one identity, and no process of a signature left over. *)
SignerSound == OneIdentity /\ NoSignerLeft

(* A request for a signature ends, also when the child ends in the middle
   of it (subprocess_sign.c:84). *)
SignReturns == (server = "signing") ~> (server # "signing")
=============================================================================
