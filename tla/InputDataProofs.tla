---------------------------- MODULE InputDataProofs ----------------------------
(***************************************************************************)
(* Proofs about InputData: an input is what its id says, is missing only   *)
(* when it was deleted, and is that of the user's files unless one of them *)
(* was written in place, or replaced while it was read.                    *)
(***************************************************************************)
EXTENDS InputData, TLAPS

-----------------------------------------------------------------------------
(* The inductive invariant.                                                *)

(* Who asks the controller for an input knows its id, and who has opened   *)
(* one runs.                                                               *)
Identified == {"cached", "check", "store", "put", "receive", "verify", "remember",
               "run", "running"}
Named ==
  /\ \A c \in Clients : pc[c] \in Identified => wanted[c] \in Contents
  /\ \A c \in Clients : pc[c] # "running" => input[c] = None
  /\ StoredIsNamed

(* Who was told that an input is there finds it, or it was deleted.        *)
Deleted(c) == InputsDeleted /\ removed[c]
Assured ==
  \A c \in Clients :
    /\ pc[c] \in {"store", "remember", "run"} =>
         InputFileExists(wanted[c]) \/ Deleted(c)
    /\ pc[c] = "missing" => Deleted(c)

(* What the files contained since a client began.                          *)
Following(c) == seen[c] # Unseen
Watched == \A c \in Clients : Following(c) => \A f \in Files : files[f] \in seen[c][f]
Past == \A c \in Clients : stamp[c] <= time
Begun ==
  \A c \in Clients :
    /\ pc[c] = "idle" => ~Following(c)
    /\ pc[c] \in {"list", "read", "copy"} \cup InRequest => Following(c) \/ Files = {}

(* A content the client could have read: for each file a version it has    *)
(* seen, or one with its end cut off, if it has seen it replaced.          *)
Has(c, f, v) == v \in seen[c][f] \/ (v = Cut /\ Replaced(c, f))
Knows(c, i) == \A f \in Files : Has(c, f, i[f])

(* What a client has put in its tarball is of that kind, and the file of   *)
(* which it took the size was one it has seen.                             *)
Read ==
  \A c \in Clients :
    /\ pc[c] \in {"idle", "lookup", "cached", "list"} => tarball[c] = Empty
    /\ pc[c] \in {"read", "copy"} /\ Following(c) =>
         \A f \in Files :
           /\ f \notin unread[c] => Has(c, f, tarball[c][f])
           /\ f \in unread[c] =>
                tarball[c][f] = Absent \/ tarball[c][f] \in seen[c][f]

(* While no file is written in place, what a client sees depends on its    *)
(* time stamp only: so an id that is found under the stamp is one the      *)
(* client could have made.                                                 *)
Current ==
  ~edited => \A c \in Clients : Following(c) /\ stamp[c] = time =>
                                  seen[c] = [f \in Files |-> {files[f]}]
Alike ==
  ~edited => \A c, d \in Clients :
               Following(c) /\ Following(d) /\ stamp[c] = stamp[d] => seen[c] = seen[d]
Fresh ==
  ~edited => \A c \in Clients : pc[c] \in Identified /\ Following(c)
                                  => Knows(c, wanted[c])
Cached ==
  ~edited => \A t \in 0..MaxTime : cache[t] # None =>
               \E d \in Clients : pc[d] # "idle" /\ stamp[d] = t /\ Knows(d, cache[t])

Seen == Watched /\ Past /\ Begun /\ Current /\ Alike
Inv == TypeOK /\ Named /\ Assured /\ Seen /\ Read /\ Fresh /\ Cached

LEMMA EmptyFacts == Empty \in Contents /\ Unseen \in [Files -> SUBSET States]
BY DEF Empty, Unseen, Contents, States

LEMMA InitInv == Init => Inv
<1> SUFFICES ASSUME Init PROVE Inv
  OBVIOUS
<1>1. TypeOK
  <2>1. time \in 0..MaxTime /\ 0 \in 0..MaxTime
    BY InputAssumption, SMT DEF InputAssumption, Init
  <2>2. /\ files \in [Files -> States]
        /\ tarball \in [Clients -> Contents]
        /\ seen \in [Clients -> [Files -> SUBSET States]]
    BY EmptyFacts DEF Init, States
  <2>3. /\ stamp \in [Clients -> 0..MaxTime]
        /\ unread \in [Clients -> SUBSET Files]
        /\ removed \in [Clients -> BOOLEAN] /\ edited \in BOOLEAN
    BY <2>1 DEF Init
  <2>4. /\ wanted \in [Clients -> Contents \cup {None}]
        /\ temp \in [Clients -> Contents \cup {None, Torn}]
        /\ input \in [Clients -> Contents \cup {None}]
        /\ stored \in [Contents -> Contents \cup {None, Torn}]
        /\ cache \in [0..MaxTime -> Contents \cup {None}]
    BY DEF Init
  <2> QED
    BY <2>1, <2>2, <2>3, <2>4 DEF Init, TypeOK
<1>2. Named /\ Assured
  BY DEF Init, Named, Assured, StoredIsNamed, Identified
<1>3. Seen
  BY InputAssumption, SMT
  DEF InputAssumption, Init, Seen, Watched, Past, Begun, Current, Alike, Following,
      InRequest
<1>4. Read /\ Fresh /\ Cached
  BY DEF Init, Read, Fresh, Cached, Following, Identified
<1> QED
  BY <1>1, <1>2, <1>3, <1>4 DEF Inv

-----------------------------------------------------------------------------
(* What the user does to the files.                                        *)

(* A change adds to what has been seen, and to nothing else.               *)
LEMMA ChangeFacts ==
  ASSUME Inv, NEW f \in Files, NEW v \in States, Change(f, v)
  PROVE  /\ files' \in [Files -> States] /\ files' = [files EXCEPT ![f] = v]
         /\ seen' \in [Clients -> [Files -> SUBSET States]]
         /\ \A c \in Clients :
              /\ ~Following(c) => seen'[c] = seen[c]
              /\ Following(c) => seen'[c] = [seen[c] EXCEPT ![f] = @ \cup {v}]
              /\ Following(c)' <=> Following(c)
              /\ \A g \in Files : seen[c][g] \subseteq seen'[c][g]
<1>1. files' \in [Files -> States]
  BY DEF Change, Inv, TypeOK
<1>2. ASSUME NEW c \in Clients
      PROVE  /\ seen[c] \in [Files -> SUBSET States]
             /\ ~Following(c) => seen'[c] = seen[c]
             /\ Following(c) => seen'[c] = [seen[c] EXCEPT ![f] = @ \cup {v}]
  BY DEF Change, Following, Inv, TypeOK
<1>3. ASSUME NEW c \in Clients
      PROVE  /\ seen'[c] \in [Files -> SUBSET States]
             /\ \A g \in Files : seen[c][g] \subseteq seen'[c][g]
  <2>1. CASE Following(c)
    <3>1. seen'[c] = [seen[c] EXCEPT ![f] = seen[c][f] \cup {v}]
      BY <1>2, <2>1
    <3> HIDE DEF Following
    <3> QED
      BY <1>2, <3>1
  <2>2. CASE ~Following(c)
    BY <1>2, <2>2
  <2> QED
    BY <2>1, <2>2
<1>4. ASSUME NEW c \in Clients, Following(c) PROVE Following(c)'
  <2>1. seen'[c] = [seen[c] EXCEPT ![f] = seen[c][f] \cup {v}]
        /\ seen[c] \in [Files -> SUBSET States]
    BY <1>2, <1>4
  <2>2. seen'[c][f] = seen[c][f] \cup {v}
    BY <2>1
  <2> QED
    BY <2>2 DEF Following, Unseen
<1>5. ASSUME NEW c \in Clients, ~Following(c) PROVE ~Following(c)'
  BY <1>2, <1>5 DEF Following, Unseen
<1>6. seen' \in [Clients -> [Files -> SUBSET States]]
  BY <1>3 DEF Change
<1> QED
  BY <1>1, <1>2, <1>3, <1>4, <1>5, <1>6 DEF Change

LEMMA EditInv ==
  ASSUME Inv, Replace \/ Overwrite
  PROVE  Inv'
<1>1. PICK f \in Files, v \in States : Change(f, v)
  BY DEF Replace, Overwrite, States
<1>2. /\ UNCHANGED <<clientVars, stored, cache, removed>>
      /\ time' \in 0..MaxTime /\ edited' \in BOOLEAN /\ time' >= time
      /\ edited' \/ (~edited /\ time' = time + 1) \/ edited
  <2>1. CASE Replace
    BY <1>1, <2>1, InputAssumption, SMT DEF InputAssumption, Replace, Change, Inv, TypeOK
  <2>2. CASE Overwrite
    BY <1>1, <2>2, InputAssumption, SMT DEF InputAssumption, Overwrite, Change, Inv, TypeOK
  <2> QED
    BY <2>1, <2>2
<1>3. edited => edited'
  BY DEF Replace, Overwrite
<1>4. TypeOK'
  BY <1>1, <1>2, ChangeFacts DEF Inv, TypeOK, clientVars
<1>5. Named' /\ Assured'
  BY <1>2
  DEF Inv, Named, Assured, StoredIsNamed, Deleted, InputFileExists, clientVars
<1>6. Watched'
  <2> SUFFICES ASSUME NEW c \in Clients, Following(c)', NEW g \in Files
               PROVE  files'[g] \in seen'[c][g]
    BY DEF Watched
  <2>1. Following(c) /\ files[g] \in seen[c][g]
    BY <1>1, ChangeFacts DEF Inv, Seen, Watched
  <2>2. seen'[c] = [seen[c] EXCEPT ![f] = @ \cup {v}] /\ files' = [files EXCEPT ![f] = v]
    BY <1>1, <2>1, ChangeFacts
  <2>3. files \in [Files -> States] /\ seen[c] \in [Files -> SUBSET States]
    BY DEF Inv, TypeOK
  <2> QED
    BY <2>1, <2>2, <2>3
<1>7. Past'
  BY <1>2, SMT DEF Inv, TypeOK, Seen, Past, clientVars
<1>8. Begun'
  BY <1>1, <1>2, ChangeFacts DEF Inv, Seen, Begun, clientVars
<1>9. Current'
  <2>1. CASE edited'
    BY <2>1 DEF Current
  <2>2. CASE ~edited'
    BY <1>2, <1>3, <2>2, SMT DEF Inv, TypeOK, Seen, Past, Current, clientVars
  <2> QED
    BY <2>1, <2>2
<1>10. Alike'
  <2> SUFFICES ASSUME ~edited', NEW c \in Clients, NEW d \in Clients,
                      Following(c)', Following(d)', stamp'[c] = stamp'[d]
               PROVE  seen'[c] = seen'[d]
    BY DEF Alike
  <2>1. Following(c) /\ Following(d) /\ seen[c] = seen[d]
    BY <1>1, <1>2, <1>3, ChangeFacts DEF Inv, Seen, Alike, clientVars
  <2>2. seen'[c] = [seen[c] EXCEPT ![f] = @ \cup {v}]
    BY <1>1, <2>1, ChangeFacts
  <2>3. seen'[d] = [seen[d] EXCEPT ![f] = @ \cup {v}]
    BY <1>1, <2>1, ChangeFacts
  <2> QED
    BY <2>1, <2>2, <2>3
<1>11. ASSUME NEW c \in Clients, NEW g \in Files, NEW w, Has(c, g, w)
       PROVE  Has(c, g, w)'
  <2>1. seen[c][g] \subseteq seen'[c][g]
    BY <1>1, ChangeFacts
  <2> QED
    BY <1>11, <2>1 DEF Has, Replaced
<1>12. ASSUME NEW c \in Clients, NEW i, Knows(c, i) PROVE Knows(c, i)'
  BY <1>11, <1>12 DEF Knows
<1>13. Read'
  <2>1. \A c \in Clients : Following(c)' <=> Following(c)
    BY <1>1, ChangeFacts
  <2>2. \A c \in Clients, g \in Files : seen[c][g] \subseteq seen'[c][g]
    BY <1>1, ChangeFacts
  <2>3. ASSUME NEW c \in Clients, NEW g \in Files, Has(c, g, tarball[c][g])
        PROVE  Has(c, g, tarball[c][g])'
    BY <1>2, <1>11, <2>3 DEF clientVars, Has
  <2> QED
    BY <1>2, <2>1, <2>2, <2>3 DEF Inv, Read, clientVars
<1>14. Fresh'
  <2> SUFFICES ASSUME ~edited', NEW c \in Clients, Following(c)',
                      pc'[c] \in Identified
               PROVE  Knows(c, wanted[c])'
    BY DEF Fresh
  <2>1. Knows(c, wanted[c]) /\ wanted'[c] = wanted[c]
    BY <1>1, <1>2, <1>3, ChangeFacts DEF Inv, Fresh, clientVars
  <2> QED
    BY <2>1, <1>12 DEF Knows
<1>15. Cached'
  <2> SUFFICES ASSUME ~edited', NEW t \in 0..MaxTime, cache'[t] # None
               PROVE  \E d \in Clients : /\ pc'[d] # "idle" /\ stamp'[d] = t
                                         /\ Knows(d, cache[t])'
    BY DEF Cached
  <2>1. cache'[t] = cache[t] /\ ~edited
    BY <1>2, <1>3
  <2>2. PICK d \in Clients : pc[d] # "idle" /\ stamp[d] = t /\ Knows(d, cache[t])
    BY <2>1 DEF Inv, Cached
  <2>3. Knows(d, cache[t])'
    BY <1>12, <2>1, <2>2 DEF Knows
  <2> QED
    BY <1>2, <2>2, <2>3 DEF clientVars
<1> QED
  BY <1>4, <1>5, <1>6, <1>7, <1>8, <1>9, <1>10, <1>13, <1>14, <1>15 DEF Inv, Seen

-----------------------------------------------------------------------------
(* What the clients do.                                                    *)

Asking == {"list", "read", "copy"} \cup InRequest

(* A step of a client that neither begins nor stores an id keeps what is   *)
(* known about the files, if the id it works with is one it may know.      *)
LEMMA Kept ==
  ASSUME Inv, NEW c \in Clients, NEW to, NEW i,
         pc' = [pc EXCEPT ![c] = to], wanted' = [wanted EXCEPT ![c] = i],
         to # "idle", to \in Asking => pc[c] \in Asking,
         UNCHANGED <<files, time, stamp, seen, edited>>,
         ~edited /\ to \in Identified /\ Following(c) => Knows(c, i)
  PROVE  Seen' /\ Fresh' /\ (UNCHANGED cache => Cached')
<1>1. \A d \in Clients : /\ d # c => pc'[d] = pc[d] /\ wanted'[d] = wanted[d]
                         /\ pc'[c] = to /\ wanted'[c] = i
  BY DEF Inv, TypeOK
<1>2. \A d \in Clients : Following(d)' <=> Following(d)
  BY DEF Following
<1>3. Seen'
  BY <1>1, <1>2
  DEF Inv, Seen, Watched, Past, Begun, Current, Alike, Asking
<1>4. Fresh'
  BY <1>1, <1>2 DEF Inv, Fresh, Knows, Has, Replaced
<1>5. ASSUME UNCHANGED cache PROVE Cached'
  BY <1>1, <1>5 DEF Inv, Cached, Knows, Has, Replaced
<1> QED
  BY <1>3, <1>4, <1>5

LEMMA StartInv ==
  ASSUME Inv, NEW c \in Clients, Start(c)
  PROVE  Inv'
<1> DEFINE now == [f \in Files |-> {files[f]}]
<1>1. /\ pc[c] = "idle" /\ pc' = [pc EXCEPT ![c] = "lookup"]
      /\ stamp' = [stamp EXCEPT ![c] = time]
      /\ seen' = [seen EXCEPT ![c] = now]
      /\ UNCHANGED <<files, time, unread, tarball, wanted, temp, input, stored, cache,
                     removed, edited>>
  BY DEF Start, Goto
<1>2. now \in [Files -> SUBSET States]
  BY DEF Inv, TypeOK
<1>3. /\ seen'[c] = now /\ stamp'[c] = time /\ pc'[c] = "lookup"
      /\ \A d \in Clients : d # c => seen'[d] = seen[d] /\ stamp'[d] = stamp[d]
                                     /\ pc'[d] = pc[d]
  BY <1>1 DEF Inv, TypeOK
<1>4. \A f \in Files : now[f] = {files[f]}
  OBVIOUS
<1> HIDE DEF now
<1>5. /\ \A d \in Clients : d # c => (Following(d)' <=> Following(d))
      /\ ~Following(c)
  BY <1>1, <1>3 DEF Following, Inv, Seen, Begun
<1>6. Files = {} \/ Following(c)'
  <2>1. ASSUME NEW f \in Files PROVE Following(c)'
    BY <1>3, <1>4 DEF Following, Unseen
  <2> QED
    BY <2>1
<1>7. TypeOK'
  BY <1>1, <1>2, SMTT(30) DEF Inv, TypeOK
<1>8. Named' /\ Assured'
  BY <1>1 DEF Inv, TypeOK, Named, Assured, StoredIsNamed, Identified, Deleted,
              InputFileExists
<1>9. Watched' /\ Begun'
  BY <1>1, <1>3, <1>4, <1>5, <1>6 DEF Inv, Seen, Watched, Begun
<1>10. Past'
  BY <1>1, <1>3, SMT DEF Inv, TypeOK, Seen, Past
<1>11. Current'
  BY <1>1, <1>3, <1>5 DEF now, Inv, Seen, Current
<1>12. Alike'
  <2> SUFFICES ASSUME ~edited', NEW d \in Clients, d # c, Following(d)',
                      stamp'[d] = time
               PROVE  seen'[d] = now
    BY <1>1, <1>3, <1>5 DEF Inv, Seen, Alike
  <2> QED
    BY <1>1, <1>3, <1>5 DEF now, Inv, Seen, Current
<1>13. Read'
  BY <1>1, <1>3, <1>5 DEF Inv, TypeOK, Read, Has, Replaced
<1>14. Fresh'
  BY <1>1, <1>3, <1>5 DEF Inv, Fresh, Knows, Has, Replaced, Identified
<1>15. Cached'
  BY <1>1, <1>3, <1>5 DEF Inv, Cached, Knows, Has, Replaced
<1> QED
  BY <1>7, <1>8, <1>9, <1>10, <1>11, <1>12, <1>13, <1>14, <1>15 DEF Inv, Seen

(* The id that is found under a time is one its client could have made.    *)
LEMMA LookUpInv ==
  ASSUME Inv, NEW c \in Clients, LookUp(c) \/ LookUpFile(c)
  PROVE  Inv'
<1> USE DEF Goto
<1>1. UNCHANGED <<files, time, stamp, unread, tarball, temp, input, stored, cache,
                  seen, edited>>
  BY DEF LookUp, LookUpFile
<1>2. \A d \in Clients : Following(d)' <=> Following(d)
  BY <1>1 DEF Following
<1>3. CASE LookUp(c)
  <2>1. CASE cache[stamp[c]] = None
    <3>1. /\ pc[c] = "lookup" /\ pc' = [pc EXCEPT ![c] = "list"]
          /\ UNCHANGED <<wanted, removed>>
      BY <1>3, <2>1 DEF LookUp
    <3>2. wanted' = [wanted EXCEPT ![c] = wanted[c]]
      BY <3>1 DEF Inv, TypeOK
    <3>3. Seen' /\ Fresh' /\ Cached'
      BY <1>1, <3>1, <3>2, Kept DEF Asking, InRequest, Identified
    <3>4. TypeOK'
      BY <1>1, <3>1, SMTT(30) DEF Inv, TypeOK
    <3>5. Named' /\ Assured' /\ Read'
      BY <1>1, <1>2, <3>1
      DEF Inv, TypeOK, Named, Assured, StoredIsNamed, Identified, Deleted,
          InputFileExists, Read, Has, Replaced
    <3> QED
      BY <3>3, <3>4, <3>5 DEF Inv
  <2>2. CASE cache[stamp[c]] # None
    <3>1. /\ pc[c] = "lookup" /\ pc' = [pc EXCEPT ![c] = "cached"]
          /\ wanted' = [wanted EXCEPT ![c] = cache[stamp[c]]]
          /\ UNCHANGED removed
      BY <1>3, <2>2 DEF LookUp
    <3>2. stamp[c] \in 0..MaxTime /\ cache[stamp[c]] \in Contents
      BY <2>2 DEF Inv, TypeOK
    <3>3. ASSUME ~edited, Following(c) PROVE Knows(c, cache[stamp[c]])
      <4>1. PICK d \in Clients : stamp[d] = stamp[c] /\ Knows(d, cache[stamp[c]])
        BY <2>2, <3>2, <3>3 DEF Inv, Cached
      <4>2. PICK f \in Files : TRUE
        BY <3>3 DEF Following, Unseen, Inv, TypeOK
      <4>3. Following(d)
        BY <4>1, <4>2 DEF Following, Unseen, Knows, Has, Replaced
      <4>4. seen[c] = seen[d]
        BY <3>3, <4>1, <4>3 DEF Inv, Seen, Alike
      <4> QED
        BY <4>1, <4>4 DEF Knows, Has, Replaced
    <3>4. Seen' /\ Fresh' /\ Cached'
      BY <1>1, <3>1, <3>3, Kept DEF Asking, InRequest
    <3>5. TypeOK'
      BY <1>1, <3>1, <3>2, SMTT(30) DEF Inv, TypeOK
    <3>6. Named' /\ Assured' /\ Read'
      BY <1>1, <1>2, <3>1, <3>2
      DEF Inv, TypeOK, Named, Assured, StoredIsNamed, Identified, Deleted,
          InputFileExists, Read, Has, Replaced
    <3> QED
      BY <3>4, <3>5, <3>6 DEF Inv
  <2> QED
    BY <2>1, <2>2
<1>4. CASE LookUpFile(c)
  <2>1. /\ pc[c] = "cached"
        /\ removed' = [removed EXCEPT ![c] = FALSE]
    BY <1>4 DEF LookUpFile
  <2>2. CASE InputFileExists(wanted[c])
    <3>1. pc' = [pc EXCEPT ![c] = "run"] /\ UNCHANGED wanted
      BY <1>4, <2>2 DEF LookUpFile
    <3>2. wanted' = [wanted EXCEPT ![c] = wanted[c]]
      BY <3>1 DEF Inv, TypeOK
    <3>3. Seen' /\ Fresh' /\ Cached'
      BY <1>1, <2>1, <3>1, <3>2, Kept DEF Asking, InRequest, Inv, Fresh, Identified
    <3>4. TypeOK'
      BY <1>1, <2>1, <3>1, SMTT(30) DEF Inv, TypeOK
    <3>5. Named' /\ Assured' /\ Read'
      BY <1>1, <1>2, <2>1, <2>2, <3>1
      DEF Inv, TypeOK, Named, Assured, StoredIsNamed, Identified, Deleted,
          InputFileExists, Read, Has, Replaced
    <3> QED
      BY <3>3, <3>4, <3>5 DEF Inv
  <2>3. CASE ~InputFileExists(wanted[c])
    <3>1. pc' = [pc EXCEPT ![c] = "list"] /\ wanted' = [wanted EXCEPT ![c] = None]
      BY <1>4, <2>3 DEF LookUpFile
    <3>2. Seen' /\ Fresh' /\ Cached'
      BY <1>1, <2>1, <3>1, Kept DEF Asking, InRequest, Identified
    <3>3. TypeOK'
      BY <1>1, <2>1, <3>1, SMTT(30) DEF Inv, TypeOK
    <3>4. Named' /\ Assured' /\ Read'
      BY <1>1, <1>2, <2>1, <3>1
      DEF Inv, TypeOK, Named, Assured, StoredIsNamed, Identified, Deleted,
          InputFileExists, Read, Has, Replaced
    <3> QED
      BY <3>2, <3>3, <3>4 DEF Inv
  <2> QED
    BY <2>2, <2>3
<1> QED
  BY <1>3, <1>4

(* A client that ends leaves nothing behind, but it may have missed an     *)
(* input that was deleted.                                                 *)
LEMMA EndInv ==
  ASSUME Inv, NEW c \in Clients, NEW to \in {"failed", "dead", "missing"},
         End(c, to), pc[c] # "running", to = "missing" => Deleted(c),
         UNCHANGED <<files, time, stamp, input, stored, cache, seen, removed, edited>>
  PROVE  Inv'
<1>1. /\ pc' = [pc EXCEPT ![c] = to] /\ unread' = [unread EXCEPT ![c] = {}]
      /\ tarball' = [tarball EXCEPT ![c] = Empty]
      /\ wanted' = [wanted EXCEPT ![c] = None] /\ temp' = [temp EXCEPT ![c] = None]
  BY DEF End
<1>2. Seen' /\ Fresh' /\ Cached'
  BY <1>1, Kept DEF Asking, InRequest, Identified
<1>3. \A d \in Clients : /\ pc'[c] = to
                         /\ d # c => /\ pc'[d] = pc[d] /\ wanted'[d] = wanted[d]
                                     /\ unread'[d] = unread[d]
                                     /\ tarball'[d] = tarball[d]
  BY <1>1 DEF Inv, TypeOK
<1>4. TypeOK'
  BY <1>1, EmptyFacts, SMTT(30) DEF Inv, TypeOK
<1>5. Named'
  BY <1>3 DEF Inv, Named, StoredIsNamed, Identified
<1>6. Assured'
  BY <1>3 DEF Inv, Assured, Deleted, InputFileExists
<1>7. Read'
  BY <1>3 DEF Inv, Read, Has, Replaced, Following
<1> QED
  BY <1>2, <1>4, <1>5, <1>6, <1>7 DEF Inv

(* What is read into a tarball was there when it was read, or was not      *)
(* listed because it was not there then; and only of a file that was       *)
(* replaced can the end be missing.                                        *)
LEMMA ListInv ==
  ASSUME Inv, NEW c \in Clients, List(c)
  PROVE  Inv'
<1>1. /\ pc[c] = "list" /\ pc' = [pc EXCEPT ![c] = "read"]
      /\ unread' = [unread EXCEPT ![c] = {f \in Files : files[f] # Absent}]
      /\ UNCHANGED <<files, time, stamp, wanted, tarball, temp, input, stored, cache,
                     seen, removed, edited>>
  BY DEF List, Goto
<1>2. wanted' = [wanted EXCEPT ![c] = wanted[c]]
  BY <1>1 DEF Inv, TypeOK
<1>3. Seen' /\ Fresh' /\ Cached'
  BY <1>1, <1>2, Kept DEF Asking, InRequest, Identified
<1>4. TypeOK'
  BY <1>1, SMTT(30) DEF Inv, TypeOK
<1>5. Named' /\ Assured'
  BY <1>1
  DEF Inv, TypeOK, Named, Assured, StoredIsNamed, Identified, Deleted, InputFileExists
<1>6. \A f \in Files : tarball[c][f] = Absent
  BY <1>1 DEF Inv, Read, Empty
<1>7. ASSUME Following(c), NEW f \in Files, f \notin unread'[c]
      PROVE  tarball[c][f] \in seen[c][f]
  BY <1>1, <1>6, <1>7 DEF Inv, TypeOK, Seen, Watched
<1>8. Read'
  BY <1>1, <1>6, <1>7 DEF Inv, TypeOK, Read, Has, Replaced, Following
<1> QED
  BY <1>3, <1>4, <1>5, <1>8 DEF Inv

LEMMA StatInv ==
  ASSUME Inv, NEW c \in Clients, StatFile(c)
  PROVE  Inv'
<1>1. pc[c] = "read"
      /\ UNCHANGED <<files, time, stamp, input, stored, cache, seen, removed, edited>>
  BY DEF StatFile
<1>2. PICK f \in unread[c] :
        \/ End(c, "failed")
        \/ /\ files[f] # Absent /\ pc' = [pc EXCEPT ![c] = "copy"]
           /\ tarball' = [tarball EXCEPT ![c] = [tarball[c] EXCEPT ![f] = files[f]]]
           /\ UNCHANGED <<unread, wanted, temp>>
  BY DEF StatFile, Goto
<1>3. CASE End(c, "failed")
  BY <1>1, <1>3, EndInv
<1>4. CASE /\ files[f] # Absent /\ pc' = [pc EXCEPT ![c] = "copy"]
           /\ tarball' = [tarball EXCEPT ![c] = [tarball[c] EXCEPT ![f] = files[f]]]
           /\ UNCHANGED <<unread, wanted, temp>>
  <2>1. f \in Files /\ files[f] \in States /\ tarball[c] \in Contents
    BY DEF Inv, TypeOK
  <2>2. wanted' = [wanted EXCEPT ![c] = wanted[c]]
    BY <1>4 DEF Inv, TypeOK
  <2>3. Seen' /\ Fresh' /\ Cached'
    BY <1>1, <1>4, <2>2, Kept DEF Asking, InRequest, Identified
  <2>4. tarball'[c] = [tarball[c] EXCEPT ![f] = files[f]]
    BY <1>4 DEF Inv, TypeOK
  <2>5. tarball' \in [Clients -> Contents]
    BY <1>4, <2>1 DEF Inv, TypeOK, Contents
  <2>6. TypeOK'
    BY <1>1, <1>4, <2>5 DEF Inv, TypeOK
  <2>7. Named' /\ Assured'
    BY <1>1, <1>4
    DEF Inv, TypeOK, Named, Assured, StoredIsNamed, Identified, Deleted,
        InputFileExists
  <2>8. ASSUME Following(c), NEW g \in Files
        PROVE  /\ g \notin unread[c] => Has(c, g, tarball'[c][g])
               /\ g \in unread[c] =>
                    tarball'[c][g] = Absent \/ tarball'[c][g] \in seen[c][g]
    <3>1. CASE g = f
      BY <2>1, <2>4, <2>8, <3>1 DEF Inv, Seen, Watched, Contents
    <3>2. CASE g # f
      <4>1. tarball'[c][g] = tarball[c][g]
        BY <2>1, <2>4, <3>2 DEF Contents
      <4> QED
        BY <1>1, <2>8, <4>1 DEF Inv, Read
    <3> QED
      BY <3>1, <3>2
  <2>9. \A d \in Clients : d # c => tarball'[d] = tarball[d] /\ pc'[d] = pc[d]
    BY <1>4 DEF Inv, TypeOK
  <2>10. pc'[c] = "copy" /\ UNCHANGED <<unread, seen>>
    BY <1>1, <1>4 DEF Inv, TypeOK
  <2>11. Read'
    BY <2>8, <2>9, <2>10 DEF Inv, Read, Has, Replaced, Following
  <2> QED
    BY <2>3, <2>6, <2>7, <2>11 DEF Inv
<1> QED
  BY <1>2, <1>3, <1>4

LEMMA CopyInv ==
  ASSUME Inv, NEW c \in Clients, CopyFile(c)
  PROVE  Inv'
<1>1. pc[c] = "copy"
      /\ UNCHANGED <<files, time, stamp, input, stored, cache, seen, removed, edited>>
  BY DEF CopyFile
<1>2. PICK f \in unread[c] :
        /\ tarball[c][f] # Absent
        /\ \/ End(c, "failed")
           \/ \E v : /\ v = files[f] \/ (v = Cut /\ files[f] # tarball[c][f])
                     /\ pc' = [pc EXCEPT ![c] = "read"]
                     /\ unread' = [unread EXCEPT ![c] = unread[c] \ {f}]
                     /\ tarball' = [tarball EXCEPT ![c] = [tarball[c] EXCEPT ![f] = v]]
                     /\ UNCHANGED <<wanted, temp>>
  BY DEF CopyFile, Goto
<1>3. CASE End(c, "failed")
  BY <1>1, <1>3, EndInv
<1>4. ASSUME NEW v, v = files[f] \/ (v = Cut /\ files[f] # tarball[c][f]),
             pc' = [pc EXCEPT ![c] = "read"],
             unread' = [unread EXCEPT ![c] = unread[c] \ {f}],
             tarball' = [tarball EXCEPT ![c] = [tarball[c] EXCEPT ![f] = v]],
             UNCHANGED <<wanted, temp>>
      PROVE  Inv'
  <2>1. /\ f \in Files /\ files[f] \in States /\ v \in States \cup {Cut}
        /\ tarball[c] \in Contents
    BY <1>4 DEF Inv, TypeOK
  <2>2. wanted' = [wanted EXCEPT ![c] = wanted[c]]
    BY <1>4 DEF Inv, TypeOK
  <2>3. Seen' /\ Fresh' /\ Cached'
    BY <1>1, <1>4, <2>2, Kept DEF Asking, InRequest, Identified
  <2>4. tarball'[c] = [tarball[c] EXCEPT ![f] = v] /\ unread'[c] = unread[c] \ {f}
    BY <1>4 DEF Inv, TypeOK
  <2>5. tarball' \in [Clients -> Contents]
    BY <1>4, <2>1 DEF Inv, TypeOK, Contents
  <2>6. unread' \in [Clients -> SUBSET Files]
    BY <1>4 DEF Inv, TypeOK
  <2>7. TypeOK'
    BY <1>1, <1>4, <2>5, <2>6 DEF Inv, TypeOK
  <2>8. Named' /\ Assured'
    BY <1>1, <1>4
    DEF Inv, TypeOK, Named, Assured, StoredIsNamed, Identified, Deleted,
        InputFileExists
  <2>9. ASSUME Following(c) PROVE Has(c, f, v)
    <3>1. files[f] \in seen[c][f]
      BY <2>1, <2>9 DEF Inv, Seen, Watched
    <3>2. tarball[c][f] \in seen[c][f]
      BY <1>1, <1>2, <2>1, <2>9 DEF Inv, Read
    <3> QED
      BY <1>4, <3>1, <3>2 DEF Has, Replaced
  <2>10. ASSUME Following(c), NEW g \in Files
         PROVE  /\ g \notin unread'[c] => Has(c, g, tarball'[c][g])
                /\ g \in unread'[c] =>
                     tarball'[c][g] = Absent \/ tarball'[c][g] \in seen[c][g]
    <3>1. CASE g = f
      <4>1. tarball'[c][g] = v
        BY <2>1, <2>4, <3>1 DEF Contents
      <4> QED
        BY <2>4, <2>9, <2>10, <3>1, <4>1
    <3>2. CASE g # f
      <4>1. tarball'[c][g] = tarball[c][g] /\ (g \in unread'[c] <=> g \in unread[c])
        BY <2>1, <2>4, <3>2 DEF Contents
      <4> QED
        BY <1>1, <2>10, <4>1 DEF Inv, Read
    <3> QED
      BY <3>1, <3>2
  <2>11. \A d \in Clients : d # c => /\ tarball'[d] = tarball[d] /\ pc'[d] = pc[d]
                                     /\ unread'[d] = unread[d]
    BY <1>4 DEF Inv, TypeOK
  <2>12. pc'[c] = "read" /\ UNCHANGED seen
    BY <1>1, <1>4 DEF Inv, TypeOK
  <2>13. Read'
    BY <2>10, <2>11, <2>12 DEF Inv, Read, Has, Replaced, Following
  <2> QED
    BY <2>3, <2>7, <2>8, <2>13 DEF Inv
<1> QED
  BY <1>2, <1>3, <1>4

LEMMA ComputeInv ==
  ASSUME Inv, NEW c \in Clients, ComputeInputId(c)
  PROVE  Inv'
<1>1. /\ pc[c] = "read" /\ pc' = [pc EXCEPT ![c] = "check"] /\ unread[c] = {}
      /\ wanted' = [wanted EXCEPT ![c] = tarball[c]]
      /\ UNCHANGED <<files, time, stamp, unread, tarball, temp, input, stored, cache,
                     seen, removed, edited>>
  BY DEF ComputeInputId, Goto
<1>2. Following(c) => Knows(c, tarball[c])
  BY <1>1 DEF Inv, Read, Knows
<1>3. Seen' /\ Fresh' /\ Cached'
  BY <1>1, <1>2, Kept DEF Asking
<1>4. TypeOK'
  BY <1>1, SMTT(30) DEF Inv, TypeOK
<1>5. Named' /\ Assured' /\ Read'
  BY <1>1
  DEF Inv, TypeOK, Named, Assured, StoredIsNamed, Identified, Deleted,
      InputFileExists, Read, Has, Replaced, Following
<1> QED
  BY <1>3, <1>4, <1>5 DEF Inv

(* An id is stored under the time its client began at.                     *)
LEMMA StoreInv ==
  ASSUME Inv, NEW c \in Clients, CheckStore(c) \/ Remember(c)
  PROVE  Inv'
<1>1. /\ pc[c] \in {"store", "remember"} /\ pc' = [pc EXCEPT ![c] = "run"]
      /\ cache' = [cache EXCEPT ![stamp[c]] = wanted[c]]
      /\ UNCHANGED <<files, time, stamp, unread, tarball, wanted, temp, input, stored,
                     seen, removed, edited>>
  BY DEF CheckStore, Remember, StoreInputId, Goto
<1>2. wanted[c] \in Contents /\ wanted' = [wanted EXCEPT ![c] = wanted[c]]
      /\ stamp[c] \in 0..MaxTime
  BY <1>1 DEF Inv, TypeOK, Named, Identified
<1>3. Seen' /\ Fresh'
  BY <1>1, <1>2, Kept DEF Asking, InRequest, Inv, Fresh, Identified
<1>4. TypeOK'
  BY <1>1, <1>2, SMTT(30) DEF Inv, TypeOK
<1>5. Named' /\ Assured'
  BY <1>1
  DEF Inv, TypeOK, Named, Assured, StoredIsNamed, Identified, Deleted, InputFileExists
<1>6. Read'
  BY <1>1 DEF Inv, TypeOK, Read, Has, Replaced, Following
<1>7. Cached'
  <2> SUFFICES ASSUME ~edited, NEW t \in 0..MaxTime, cache'[t] # None
               PROVE  \E d \in Clients : /\ pc'[d] # "idle" /\ stamp[d] = t
                                         /\ Knows(d, cache'[t])
    BY <1>1 DEF Cached, Knows, Has, Replaced
  <2>1. CASE t = stamp[c]
    <3>1. cache'[t] = wanted[c] /\ pc'[c] # "idle"
      BY <1>1, <2>1 DEF Inv, TypeOK
    <3>2. Knows(c, wanted[c])
      BY <1>1 DEF Inv, Seen, Begun, Fresh, Knows, Identified, InRequest
    <3> QED
      BY <2>1, <3>1, <3>2
  <2>2. CASE t # stamp[c]
    <3>1. cache'[t] = cache[t]
      BY <1>1, <2>2 DEF Inv, TypeOK
    <3>2. PICK d \in Clients : pc[d] # "idle" /\ stamp[d] = t /\ Knows(d, cache[t])
      BY <3>1 DEF Inv, Cached
    <3>3. pc'[d] # "idle"
      BY <1>1, <3>2 DEF Inv, TypeOK
    <3> QED
      BY <3>1, <3>2, <3>3
  <2> QED
    BY <2>1, <2>2
<1> QED
  BY <1>3, <1>4, <1>5, <1>6, <1>7 DEF Inv

(* The steps of a request that change neither the stored inputs nor what   *)
(* is told of the files.                                                   *)
LEMMA RequestInv ==
  ASSUME Inv, NEW c \in Clients,
         \/ CheckFile(c) \/ Put(c) \/ Receive(c)
  PROVE  Inv'
<1> USE DEF Goto
<1>1. UNCHANGED <<files, time, stamp, unread, tarball, wanted, input, stored, cache,
                  seen, edited>>
  BY DEF CheckFile, Put, Receive
<1>2. PICK to \in {"store", "put", "run", "receive", "verify"} :
        pc' = [pc EXCEPT ![c] = to]
  BY DEF CheckFile, Put, Receive
<1>3. /\ pc[c] \in InRequest
      /\ to \in Identified => pc[c] \in Identified
  BY <1>2 DEF CheckFile, Put, Receive, InRequest, Identified,
              Inv, TypeOK
<1>4. wanted' = [wanted EXCEPT ![c] = wanted[c]]
  BY <1>1 DEF Inv, TypeOK
<1>5. Seen' /\ Fresh' /\ Cached'
  <2>1. to # "idle" /\ (to \in Asking => pc[c] \in Asking)
    BY <1>3 DEF Asking
  <2>2. ~edited /\ to \in Identified /\ Following(c)
          => Knows(c, wanted[c])
    BY <1>3 DEF Inv, Fresh
  <2> QED
    BY <1>1, <1>2, <1>4, <2>1, <2>2, Kept
<1>6. temp' \in [Clients -> Contents \cup {None, Torn}]
      /\ removed' \in [Clients -> BOOLEAN]
  BY DEF CheckFile, Put, Receive, Inv, TypeOK
<1>7. TypeOK'
  <2>1. pc' \in [Clients -> {"idle", "lookup", "cached", "list", "read", "copy",
                             "check", "store", "put", "receive", "verify", "remember",
                             "run", "running", "missing", "failed", "dead"}]
    BY <1>2 DEF Inv, TypeOK
  <2> QED
    BY <1>1, <1>6, <2>1 DEF Inv, TypeOK
<1>8. Named'
  BY <1>1, <1>2, <1>3 DEF Inv, TypeOK, Named, StoredIsNamed, InRequest
<1>9. \A d \in Clients : d # c => removed'[d] = removed[d] /\ pc'[d] = pc[d]
  BY <1>2 DEF CheckFile, Put, Receive, Inv, TypeOK
<1>10. pc'[c] = to /\ to \notin {"missing", "remember"}
  BY <1>2 DEF Inv, TypeOK
<1>11. pc'[c] \in {"store", "run"} => InputFileExists(wanted[c])
  BY <1>10 DEF CheckFile, Put, Receive, Inv, TypeOK
<1>12. Assured'
  BY <1>1, <1>9, <1>10, <1>11 DEF Inv, Assured, Deleted, InputFileExists
<1>13. Read'
  BY <1>1, <1>2, <1>3 DEF Inv, TypeOK, Read, Has, Replaced, Following
<1> QED
  BY <1>5, <1>7, <1>8, <1>12, <1>13 DEF Inv

(* What is stored has been compared with its name.                         *)
LEMMA RenamedInv ==
  ASSUME Inv, NEW c \in Clients, temp[c] = wanted[c], Renamed(c)
  PROVE  Inv'
<1>1. /\ pc[c] = "verify" /\ pc' = [pc EXCEPT ![c] = "remember"]
      /\ stored' = [stored EXCEPT ![wanted[c]] = wanted[c]]
      /\ temp' = [temp EXCEPT ![c] = None]
      /\ removed' = [removed EXCEPT ![c] = FALSE]
      /\ UNCHANGED <<files, time, stamp, unread, tarball, wanted, input, cache, seen,
                     edited>>
  BY DEF Renamed, Goto
<1>2. wanted[c] \in Contents /\ wanted' = [wanted EXCEPT ![c] = wanted[c]]
  BY <1>1 DEF Inv, TypeOK, Named, Identified
<1>3. Seen' /\ Fresh' /\ Cached'
  BY <1>1, <1>2, Kept DEF Asking, InRequest, Inv, Fresh, Identified
<1>4. TypeOK'
  BY <1>1, <1>2, SMTT(30) DEF Inv, TypeOK
<1>5. Named'
  BY <1>1, <1>2 DEF Inv, TypeOK, Named, StoredIsNamed, Identified
<1>6. \A i \in Contents : InputFileExists(i) => InputFileExists(i)'
  BY <1>1, <1>2, NoContentAssumption DEF Inv, TypeOK, InputFileExists, NoContentAssumption
<1>7. InputFileExists(wanted[c])'
  BY <1>1, <1>2, NoContentAssumption DEF Inv, TypeOK, InputFileExists, NoContentAssumption
<1>8. Assured'
  <2> SUFFICES ASSUME NEW d \in Clients
               PROVE  /\ pc'[d] \in {"store", "remember", "run"} =>
                           InputFileExists(wanted[d])' \/ Deleted(d)'
                      /\ pc'[d] = "missing" => Deleted(d)'
    BY <1>1 DEF Assured, InputFileExists
  <2>1. CASE d = c
    BY <1>1, <1>7, <2>1 DEF Inv, TypeOK
  <2>2. CASE d # c
    <3>1. pc'[d] = pc[d] /\ removed'[d] = removed[d]
      BY <1>1, <2>2 DEF Inv, TypeOK
    <3>2. pc[d] \in {"store", "remember", "run"} => wanted[d] \in Contents
      BY DEF Inv, Named, Identified
    <3>3. pc[d] \in {"store", "remember", "run"} =>
            InputFileExists(wanted[d])' \/ Deleted(d)
      BY <1>1, <1>6, <3>2 DEF Inv, Assured, InputFileExists
    <3> QED
      BY <3>1, <3>3 DEF Inv, Assured, Deleted
  <2> QED
    BY <2>1, <2>2
<1>9. Read'
  BY <1>1 DEF Inv, TypeOK, Read, Has, Replaced, Following
<1> QED
  BY <1>3, <1>4, <1>5, <1>8, <1>9 DEF Inv

LEMMA RunInv ==
  ASSUME Inv, NEW c \in Clients, StartById(c) \/ Open(c)
  PROVE  Inv'
<1> USE DEF Goto
<1>1. UNCHANGED <<files, time, stamp, stored, cache, seen, removed, edited>>
  BY DEF StartById, Open
<1>2. CASE StartById(c)
  <2>1. PICK i \in Contents : stored[i] # None /\ wanted' = [wanted EXCEPT ![c] = i]
    BY <1>2 DEF StartById
  <2>2. pc[c] = "idle" /\ pc' = [pc EXCEPT ![c] = "run"]
        /\ UNCHANGED <<unread, tarball, temp, input>>
    BY <1>2 DEF StartById
  <2>3. ~Following(c)
    BY <2>2 DEF Inv, Seen, Begun
  <2>4. Seen' /\ Fresh' /\ Cached'
    BY <1>1, <2>1, <2>2, <2>3, Kept DEF Asking, InRequest
  <2>5. TypeOK'
    BY <1>1, <2>1, <2>2, SMTT(30) DEF Inv, TypeOK
  <2>6. Named' /\ Assured' /\ Read'
    BY <1>1, <2>1, <2>2
    DEF Inv, TypeOK, Named, Assured, StoredIsNamed, Identified, Deleted,
        InputFileExists, Read, Has, Replaced, Following
  <2> QED
    BY <2>4, <2>5, <2>6 DEF Inv
<1>3. CASE Open(c)
  <2>1. pc[c] = "run" /\ wanted[c] \in Contents
    BY <1>3 DEF Open, Inv, Named, Identified
  <2>2. CASE InputFileExists(wanted[c])
    <3>1. /\ pc' = [pc EXCEPT ![c] = "running"]
          /\ input' = [input EXCEPT ![c] = stored[wanted[c]]]
          /\ UNCHANGED <<unread, tarball, wanted, temp>>
          /\ wanted' = [wanted EXCEPT ![c] = wanted[c]]
      BY <1>3, <2>2 DEF Open, Inv, TypeOK
    <3>2. stored[wanted[c]] = wanted[c]
      BY <2>1, <2>2 DEF InputFileExists, Inv, Named, StoredIsNamed
    <3>3. Seen' /\ Fresh' /\ Cached'
      BY <1>1, <2>1, <3>1, Kept DEF Asking, InRequest, Inv, Fresh, Identified
    <3>4. TypeOK'
      BY <1>1, <2>1, <3>1, <3>2, SMTT(30) DEF Inv, TypeOK
    <3>5. Named' /\ Assured' /\ Read'
      BY <1>1, <2>1, <3>1, <3>2
      DEF Inv, TypeOK, Named, Assured, StoredIsNamed, Identified, Deleted,
          InputFileExists, Read, Has, Replaced, Following
    <3> QED
      BY <3>3, <3>4, <3>5 DEF Inv
  <2>3. CASE ~InputFileExists(wanted[c])
    <3>1. End(c, "missing") /\ UNCHANGED input
      BY <1>3, <2>3 DEF Open
    <3>2. Deleted(c)
      BY <2>1, <2>3 DEF Inv, Assured
    <3> QED
      BY <1>1, <2>1, <3>1, <3>2, EndInv
  <2> QED
    BY <2>2, <2>3
<1> QED
  BY <1>2, <1>3

(* A deletion is noted for everybody who was told of the input.            *)
LEMMA DeleteInv ==
  ASSUME Inv, NEW i \in Contents, DeleteInputData(i)
  PROVE  Inv'
<1>1. /\ InputsDeleted /\ stored' = [stored EXCEPT ![i] = None]
      /\ removed' = [c \in Clients |-> removed[c] \/ wanted[c] = i]
      /\ UNCHANGED <<files, time, clientVars, cache, seen, edited>>
  BY DEF DeleteInputData
<1>2. TypeOK'
  BY <1>1 DEF Inv, TypeOK, clientVars
<1>3. Named'
  BY <1>1 DEF Inv, TypeOK, Named, StoredIsNamed, clientVars
<1>4. ASSUME NEW c \in Clients, wanted[c] \in Contents, InputFileExists(wanted[c])
      PROVE  InputFileExists(wanted[c])' \/ removed'[c]
  <2>1. wanted' = wanted
    BY <1>1 DEF clientVars
  <2>2. CASE wanted[c] = i
    <3>1. removed'[c] = (removed[c] \/ wanted[c] = i)
      BY <1>1
    <3> QED
      BY <2>2, <3>1
  <2>3. CASE wanted[c] # i
    <3>1. stored'[wanted[c]] = stored[wanted[c]]
      BY <1>1, <1>4, <2>3 DEF Inv, TypeOK
    <3> QED
      BY <1>4, <2>1, <3>1 DEF InputFileExists
  <2> QED
    BY <2>2, <2>3
<1>5. \A c \in Clients : removed[c] => removed'[c]
  BY <1>1
<1>6. Assured'
  BY <1>1, <1>4, <1>5 DEF Inv, Named, Identified, Assured, Deleted, clientVars
<1>7. Seen' /\ Read' /\ Fresh' /\ Cached'
  BY <1>1 DEF Inv, Seen, Watched, Past, Begun, Current, Alike, Following, Read, Fresh,
              Cached, Knows, Has, Replaced, clientVars
<1> QED
  BY <1>2, <1>3, <1>6, <1>7 DEF Inv

LEMMA StutterInv == Inv /\ UNCHANGED vars => Inv'
BY DEF vars, clientVars, Inv, TypeOK, Named, StoredIsNamed, Assured, Deleted,
       InputFileExists, Seen, Watched, Past, Begun, Current, Alike, Following, Read,
       Fresh, Cached, Knows, Has, Replaced

LEMMA NextInv == Inv /\ [Next]_vars => Inv'
<1> SUFFICES ASSUME Inv, Next PROVE Inv'
  BY StutterInv
<1>1. CASE Replace \/ Overwrite
  BY <1>1, EditInv
<1>2. ASSUME NEW i \in Contents, DeleteInputData(i) PROVE Inv'
  BY <1>2, DeleteInv
<1>3. ASSUME NEW c \in Clients, Refused(c) \/ Raise(c) \/ Die(c) PROVE Inv'
  BY <1>3, EndInv DEF Refused, Raise, Die, InRequest
<1>4. ASSUME NEW c \in Clients, Client(c) PROVE Inv'
  BY <1>3, <1>4, StartInv, LookUpInv, ListInv, StatInv, CopyInv, ComputeInv, StoreInv,
     RequestInv, RenamedInv, RunInv
  DEF Client, Verify
<1> QED
  BY <1>1, <1>2, <1>3, <1>4 DEF Next

LEMMA InvHolds == Spec => []Inv
BY InitInv, NextInv, PTL DEF Spec

-----------------------------------------------------------------------------
(* Type correctness.                                                       *)
THEOREM TypeCorrect == Spec => []TypeOK
<1>1. Inv => TypeOK
  BY DEF Inv
<1> QED
  BY <1>1, InvHolds, PTL

(* Whatever uploads were cut short, died or raced, an input is stored      *)
(* under its own hash, and a run opens what its id says.                   *)
THEOREM InputsAreNamed == Spec => []StoredIsNamed
<1>1. Inv => StoredIsNamed
  BY DEF Inv, Named
<1> QED
  BY <1>1, InvHolds, PTL

(* A run misses its input only when it was deleted since its client knew   *)
(* that it was there.                                                      *)
THEOREM OnlyDeletedAreMissing == Spec => []MissingWasDeleted
<1>1. Inv => MissingWasDeleted
  BY DEF Inv, Assured, Deleted, MissingWasDeleted
<1> QED
  BY <1>1, InvHolds, PTL

(* As long as no file is written in place, a run computes with contents    *)
(* its client has seen, but for files that were replaced under its eyes    *)
(* and may lack their end, however many clients publish and look up.       *)
THEOREM Freshness == Spec => []FreshUnlessEdited
<1>1. Inv => FreshUnlessEdited
  BY DEF Inv, Fresh, Knows, Has, Following, Identified, Supplied, FreshUnlessEdited
<1> QED
  BY <1>1, InvHolds, PTL
=============================================================================
