-------------------------------- MODULE NewEnv --------------------------------
(***************************************************************************)
(* The environment a child is started with (newenv.c): an array of         *)
(* pointers that ends at the first NULL, and a buffer the strings are      *)
(* appended to. Space in the buffer is never given back. A table is the    *)
(* record [e, elen, eslen] of the code's struct newenv; an entry is the    *)
(* variable's name and value, and Cost(v) the bytes a value takes with its *)
(* name.                                                                   *)
(***************************************************************************)
EXTENDS Naturals, FiniteSets, FiniteSetsExt

CONSTANTS
  EnvLen,     \* NEWENV_LEN, the entries of the array
  EnvSpace,   \* NEWENV_SPACE, the bytes of the buffer
  LargeCost,  \* the bytes a large value takes; any other takes one
  Large       \* the large values

ASSUME NewEnvAssumption ==
  /\ EnvLen \in Nat \ {0, 1}
  /\ EnvSpace \in Nat
  /\ LargeCost \in Nat \ {0}

None == [name |-> "", val |-> ""]

Entry(s, v) == [name |-> s, val |-> v]

Cost(v) == IF v \in Large THEN LargeCost ELSE 1

Slots == 0..(EnvLen - 1)

newenv_init == [e |-> [i \in Slots |-> None], elen |-> 0, eslen |-> 0]

newenv_purge == [e |-> [i \in Slots |-> None], elen |-> EnvLen, eslen |-> EnvSpace]

(* The entries execve sees, and the code scans: up to the first NULL. *)
Listed(t) == {i \in Slots : \A j \in 0..i : t.e[j] # None}

(* A variable that is already there makes room: the last entry moves into
   its place, and the place of the last becomes the NULL. *)
Removed_slip(t, s) ==
  LET hits == {i \in Listed(t) : t.e[i].name = s}
  IN IF hits = {} THEN t
     ELSE [t EXCEPT !.elen = @ - 1, !.e[Min(hits)] = t.e[t.elen - 1]]

Removed(t, s) ==
  LET hits == {i \in Listed(t) : t.e[i].name = s}
      last == t.elen - 1
  IN IF hits = {} THEN t
     ELSE [e |-> [[t.e EXCEPT ![Min(hits)] = t.e[last]] EXCEPT ![last] = None],
           elen |-> last, eslen |-> t.eslen]

newenv_env_slip(x, t, s, v) ==
  LET r == Removed(t, s)
      fits == r.elen + 2 <= EnvLen \div x /\ r.eslen + Cost(v) <= EnvSpace \div x
  IN [ok |-> fits,
      env |-> IF fits THEN [e |-> [r.e EXCEPT ![r.elen] = Entry(s, v)],
                            elen |-> r.elen + 1, eslen |-> r.eslen + Cost(v)]
              ELSE newenv_init]

(* newenv_env_: x is 1 for the server's own variables and 2 for the ones a
   client sends. The old value is gone before the new one is found not to
   fit. *)
newenv_env_(x, t, s, v) ==
  LET r == Removed(IF t.elen = 0 THEN newenv_init ELSE t, s)
      fits == /\ r.elen + 2 <= EnvLen \div x
              /\ r.eslen + Cost(v) <= EnvSpace \div x
  IN [ok |-> fits,
      env |-> IF fits
              THEN [e |-> [[r.e EXCEPT ![r.elen] = Entry(s, v)] EXCEPT ![r.elen + 1] = None],
                    elen |-> r.elen + 1, eslen |-> r.eslen + Cost(v)]
              ELSE r]

newenv_env(t, s, v) == newenv_env_(1, t, s, v)
newenv_lowenv(t, s, v) == newenv_env_(2, t, s, v)

(* newenv_copyenv: v is the set with the inherited value, or empty. *)
newenv_copyenv(t, s, vs) ==
  IF vs = {} THEN [ok |-> FALSE, env |-> t]
  ELSE newenv_env(t, s, CHOOSE v \in vs : TRUE)

(* newenv_exec: what execve gives the new program. *)
newenv_exec(t) == {t.e[i] : i \in Listed(t)}

-----------------------------------------------------------------------------
(* A table in use: the entries before elen are there, the rest are NULL, the
   NULL that ends the array lies within it, no variable is listed twice. *)
TableSound(t) ==
  /\ t.elen < EnvLen
  /\ t.eslen <= EnvSpace
  /\ \A i \in Slots : t.e[i] = None <=> i >= t.elen
  /\ \A i, j \in Listed(t) : t.e[i].name = t.e[j].name => i = j
=============================================================================
