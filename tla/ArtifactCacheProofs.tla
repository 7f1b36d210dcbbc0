------------------------- MODULE ArtifactCacheProofs -------------------------
(***************************************************************************)
(* What the artifact cache guarantees for any number of processes, keys,   *)
(* texts, directories and disturbances.                                    *)
(*                                                                         *)
(* The inductive invariant has four parts: where a client may stand with   *)
(* what in its hands (Shape), what the directories it holds contain        *)
(* (Linked), to whom a directory belongs (Separate), and, as long as       *)
(* nothing disturbs a root in use that only providers fill, that the first *)
(* publication under a key is everybody's answer (Calm).                   *)
(***************************************************************************)
EXTENDS ArtifactCache, FiniteSetTheorems, SequenceTheorems, TLAPS

Storing == {"own", "mkMarker", "wrMarker", "mkShard", "opShard", "mkTemp", "wrPayload", "wrMeta",
            "publish"}
Reading == {"open", "meta", "payload"}
Removing == {"rmOpen", "rmKids"}
Writing == {"wrPayload", "wrMeta", "publish"}

\* A step of a call and what it is part of.
Shape(r) ==
    /\ r.pc = "idle" => r = Idle
    /\ r.pc # "idle" =>
          \/ r.op = "purge" /\ r.task = "purge"
          \/ /\ r.op = "generate" /\ r.key \in Keys
             /\ r.task \in Lookups \cup {"discard", "collide", "cleanup"}
             /\ r.task \in {"pre", "again", "collide", "cleanup"} => r.text \in Texts
          \/ /\ r.op = "put" /\ r.key \in Keys
             /\ r.task \in {"pre", "collide", "cleanup"} /\ r.text = Junk
    /\ r.pc \in {"purge", "purgeList", "purgeNext"} => r.task = "purge"
    /\ r.pc = "call" => r.op = "generate" /\ r.task \in {"first", "discard"}
    /\ r.pc = "return" => r.op = "generate" /\ r.text \in Texts
    /\ r.pc \in Storing => r.task = "pre"
    /\ r.pc \in {"root", "shard"} => r.task \in Lookups \cup {"discard"}
    /\ r.pc = "stat" => r.task \in Lookups
    /\ r.pc \in Reading => r.task \in Lookups \cup {"collide"}
    /\ r.pc \in Removing => r.task \in Lookups \cup {"discard", "cleanup", "purge"}
    /\ r.pc \in Removing /\ r.task \in Lookups \cup {"discard"} => r.at = r.key
    /\ r.pc = "rmShard" => r.task \in Lookups \cup {"discard"}
    /\ r.pc \in {"meta", "payload", "rmKids"} => r.dir # None
    /\ r.pc = "payload" => r.sum # None
    \* the temporary directory of a store in progress
    /\ r.pc \in Writing => r.temp # None
    /\ r.pc \in Reading /\ r.task = "collide" => r.temp # None
    /\ r.pc \in Removing /\ r.task = "cleanup" =>
          r.temp # None /\ r.at = r.temp /\ (r.pc = "rmKids" => r.dir = r.temp)
    /\ r.temp # None =>
          \/ r.pc \in Writing
          \/ r.pc \in Reading /\ r.task = "collide"
          \/ r.pc \in Removing /\ r.task = "cleanup"

\* The directory holds nothing but what was given to store for the key, or what shows.
Sound(d, k) ==
    /\ files[d].meta \in {NoFile, Torn} \/ <<k, files[d].meta>> \in produced
    /\ files[d].payload \in {NoFile, Torn, Flipped} \/ <<k, files[d].payload>> \in produced

\* A directory it has opened as an entry.
Opened(r) ==
    \/ r.pc \in {"meta", "payload"}
    \/ r.pc = "rmKids" /\ r.task \in Lookups \cup {"discard"}

NoPurge == met \cap {"crash", "purge"} = {}

Linked(r) ==
    /\ r.text # None => <<r.key, r.text>> \in produced
    /\ r.temp # None => Sound(r.temp, r.key)
    /\ r.pc \in {"meta", "payload"} => Sound(r.dir, r.key)
    /\ r.pc = "payload" => <<r.key, r.sum>> \in produced
    /\ r.temp # None /\ r.fd # "live" => r.temp \notin temps
    /\ r.task = "purge" => "purge" \in met
    /\ NoPurge /\ r.pc = "rmKids" /\ r.task = "cleanup" => r.kids = Children(r.temp)

Separate ==
    /\ \A c, b \in Clients : me[c].temp # None /\ me[c].temp = me[b].temp => c = b
    /\ \A c \in Clients, k \in Keys : entry[k] # None => entry[k] # me[c].temp
    /\ \A c, b \in Clients : Opened(me[c]) => me[c].dir # me[b].temp

EntriesSound == \A k \in Keys : entry[k] # None => Sound(entry[k], k)

\* A process-local cache is a dictionary.
Dictionary(m) == \A i, j \in 1 .. Len(m) : m[i][1] = m[j][1] => i = j

-----------------------------------------------------------------------------
\* A root in use, no disturbance, and only providers.
Calm == InitMarker = "ok" /\ met = {} /\ "put" \notin Ops

Whole(d) == files[d].meta \in Texts /\ files[d].payload = files[d].meta

Won(pair) == entry[pair[1]] # None /\ files[entry[pair[1]]].meta = pair[2]

\* A client stands where r says, its process-local cache being m.
CalmAt(r, m) ==
    /\ r.op # "put"
    /\ r.pc \notin {"mkMarker", "wrMarker", "rmShard"}
    /\ r.task \notin {"discard", "purge"}
    /\ r.pc \in Removing => r.task = "cleanup" /\ r.fate = "exists" /\ entry[r.key] # None
    /\ r.pc \in Reading => entry[r.key] # None
    /\ r.pc \in {"meta", "payload"} => r.dir = entry[r.key]
    /\ r.pc = "payload" => r.sum = files[r.dir].meta
    /\ r.task = "again" => entry[r.key] # None
    /\ r.pc = "return" => Won(<<r.key, r.text>>)
    /\ r.pc \in {"stat", "mkTemp"} \cup Writing \cup Reading \cup Removing => r.fd = "live"
    /\ r.pc = "opShard" \/ r.fd = "live" => shard
    /\ r.temp # None => r.temp \in temps
    /\ r.pc \in {"wrMeta", "publish"} => files[r.temp].payload = r.text
    /\ r.pc = "publish" => files[r.temp].meta = r.text
    /\ \A i \in 1 .. Len(m) : Won(m[i]) \/ (r.task \notin {"none", "first"} /\ m[i][1] = r.key)

EntriesWhole == \A k \in Keys : entry[k] # None => shard /\ Whole(entry[k])

CalmInv ==
    /\ marker = "ok"
    /\ EntriesWhole
    /\ \A pair \in answers : Won(pair)
    /\ \A c \in Clients : CalmAt(me[c], mem[c])

SafeInv ==
    /\ TypeOK /\ IsFiniteSet(met)
    /\ \A c \in Clients : Shape(me[c]) /\ Linked(me[c]) /\ Dictionary(mem[c])
    /\ Separate
    /\ EntriesSound
    /\ AnswersProduced
    /\ NoOrphanTemps

CacheInv == SafeInv /\ (Calm => CalmInv)

-----------------------------------------------------------------------------
(***************************************************************************)
(* The process-local cache: what PutCache keeps, and that it forgets what  *)
(* was under the key before.                                               *)
(***************************************************************************)
Pairs == Keys \X Texts

LEMMA WithoutKeeps ==
    ASSUME NEW m \in Seq(Pairs), Dictionary(m), NEW k
    PROVE  LET w == Without(m, k)
           IN  /\ w \in Seq(Pairs) /\ Len(w) <= Len(m)
               /\ Dictionary(w)
               /\ \A i \in 1 .. Len(w) : w[i][1] # k /\ \E j \in 1 .. Len(m) : w[i] = m[j]
<1>1. CASE \A i \in 1 .. Len(m) : m[i][1] # k
  <2>1. Without(m, k) = m
    BY <1>1 DEF Without
  <2> QED
    BY <1>1, <2>1
<1>2. CASE \E i \in 1 .. Len(m) : m[i][1] = k
  <2> DEFINE p == CHOOSE i \in 1 .. Len(m) : m[i][1] = k
             w == Without(m, k)
  <2>1. p \in 1 .. Len(m) /\ m[p][1] = k
    BY <1>2
  <2>2. w = SubSeq(m, 1, p - 1) \o SubSeq(m, p + 1, Len(m))
    BY <1>2 DEF Without
  <2> HIDE DEF p, w
  <2>3. /\ SubSeq(m, 1, p - 1) \in Seq(Pairs) /\ SubSeq(m, p + 1, Len(m)) \in Seq(Pairs)
        /\ Len(SubSeq(m, 1, p - 1)) = p - 1 /\ Len(SubSeq(m, p + 1, Len(m))) = Len(m) - p
        /\ \A i \in 1 .. p - 1 : SubSeq(m, 1, p - 1)[i] = m[i]
        /\ \A i \in 1 .. Len(m) - p : SubSeq(m, p + 1, Len(m))[i] = m[p + i]
    BY <2>1
  <2>4. /\ w \in Seq(Pairs) /\ Len(w) = Len(m) - 1
        /\ \A i \in 1 .. Len(w) : w[i] = IF i < p THEN m[i] ELSE m[i + 1]
    <3> DEFINE a == SubSeq(m, 1, p - 1)
               b == SubSeq(m, p + 1, Len(m))
    <3>1. /\ a \in Seq(Pairs) /\ b \in Seq(Pairs) /\ Len(a) = p - 1 /\ Len(b) = Len(m) - p
          /\ \A i \in 1 .. p - 1 : a[i] = m[i]
          /\ \A i \in 1 .. Len(m) - p : b[i] = m[p + i]
      BY <2>3
    <3>2. w = a \o b
      BY <2>2
    <3> HIDE DEF a, b
    <3>3. /\ a \o b \in Seq(Pairs) /\ Len(a \o b) = Len(a) + Len(b)
          /\ \A i \in 1 .. Len(a) + Len(b) :
                (a \o b)[i] = IF i <= Len(a) THEN a[i] ELSE b[i - Len(a)]
      BY <3>1, ConcatProperties
    <3>4. w \in Seq(Pairs) /\ Len(w) = Len(m) - 1
      BY <2>1, <3>1, <3>2, <3>3
    <3>5. ASSUME NEW i \in 1 .. Len(w), i < p PROVE w[i] = m[i]
      BY <2>1, <3>1, <3>2, <3>3, <3>4, <3>5
    <3>6. ASSUME NEW i \in 1 .. Len(w), ~(i < p) PROVE w[i] = m[i + 1]
      <4>1. i - (p - 1) \in 1 .. Len(m) - p /\ p + (i - (p - 1)) = i + 1 /\ i \in 1 .. Len(a) + Len(b)
        BY <2>1, <3>1, <3>4, <3>6
      <4>2. w[i] = b[i - (p - 1)]
        BY <2>1, <3>1, <3>2, <3>3, <3>6, <4>1
      <4> QED
        BY <3>1, <4>1, <4>2
    <3> QED
      BY <3>4, <3>5, <3>6
  <2>5. \A i \in 1 .. Len(w) : w[i][1] # k
    BY <2>1, <2>4 DEF Dictionary
  <2>6. Dictionary(w)
    BY <2>1, <2>4 DEF Dictionary
  <2>7. \A i \in 1 .. Len(w) : \E j \in 1 .. Len(m) : w[i] = m[j]
    <3> SUFFICES ASSUME NEW i \in 1 .. Len(w) PROVE \E j \in 1 .. Len(m) : w[i] = m[j]
      OBVIOUS
    <3>1. CASE i < p
      BY <3>1, <2>1, <2>4
    <3>2. CASE ~(i < p)
      <4>1. i + 1 \in 1 .. Len(m) /\ w[i] = m[i + 1]
        BY <3>2, <2>1, <2>4
      <4> QED
        BY <4>1
    <3> QED
      BY <3>1, <3>2
  <2>8. Len(w) <= Len(m)
    BY <2>4
  <2> QED
    BY <2>4, <2>5, <2>6, <2>7, <2>8 DEF w
<1> QED
  BY <1>1, <1>2

LEMMA PutCacheKeeps ==
    ASSUME NEW m \in Seq(Pairs), Dictionary(m), Len(m) <= MemCap, NEW k \in Keys, NEW t \in Texts
    PROVE  LET n == PutCache(m, k, t)
           IN  /\ n \in Seq(Pairs) /\ Len(n) <= MemCap
               /\ Dictionary(n)
               /\ \A i \in 1 .. Len(n) :
                     n[i] = <<k, t>> \/ (n[i][1] # k /\ \E j \in 1 .. Len(m) : n[i] = m[j])
<1> DEFINE w == Without(m, k)
           g == Append(w, <<k, t>>)
<1>1. /\ w \in Seq(Pairs) /\ Len(w) <= Len(m)
      /\ Dictionary(w)
      /\ \A i \in 1 .. Len(w) : w[i][1] # k /\ \E j \in 1 .. Len(m) : w[i] = m[j]
  BY WithoutKeeps
<1> HIDE DEF w
<1>2. /\ g \in Seq(Pairs) /\ Len(g) = Len(w) + 1
      /\ \A i \in 1 .. Len(w) : g[i] = w[i]
      /\ g[Len(w) + 1] = <<k, t>>
  BY <1>1 DEF Pairs
<1>3. Dictionary(g)
  BY <1>1, <1>2 DEF Dictionary
<1>4. \A i \in 1 .. Len(g) : g[i] = <<k, t>> \/ (g[i][1] # k /\ \E j \in 1 .. Len(m) : g[i] = m[j])
  <2> SUFFICES ASSUME NEW i \in 1 .. Len(g), i # Len(w) + 1
               PROVE  g[i][1] # k /\ \E j \in 1 .. Len(m) : g[i] = m[j]
    BY <1>2
  <2>1. i \in 1 .. Len(w)
    BY <1>1, <1>2
  <2> QED
    BY <1>1, <1>2, <2>1
<1> HIDE DEF g
<1>5. /\ Tail(g) \in Seq(Pairs) /\ Len(Tail(g)) = Len(g) - 1
      /\ \A i \in 1 .. Len(Tail(g)) : Tail(g)[i] = g[i + 1]
  BY <1>1, <1>2
<1>6. Dictionary(Tail(g))
  BY <1>2, <1>3, <1>5 DEF Dictionary
<1>7. PutCache(m, k, t) = IF MemCap = 0 THEN m ELSE IF Len(g) > MemCap THEN Tail(g) ELSE g
  BY DEF PutCache, g, w
<1>8. CASE MemCap = 0
  BY <1>7, <1>8
<1>9. CASE MemCap # 0 /\ Len(g) > MemCap
  <2>1. Len(Tail(g)) <= MemCap
    BY <1>1, <1>2, <1>5, <1>9, BoundsAssumption
  <2>2. \A i \in 1 .. Len(Tail(g)) : i + 1 \in 1 .. Len(g)
    BY <1>1, <1>2, <1>5
  <2>3. \A i \in 1 .. Len(Tail(g)) : \/ Tail(g)[i] = <<k, t>>
                                     \/ Tail(g)[i][1] # k /\ \E j \in 1 .. Len(m) : Tail(g)[i] = m[j]
    BY <1>4, <1>5, <2>2
  <2> QED
    BY <1>5, <1>6, <1>7, <1>9, <2>1, <2>3
<1>10. CASE MemCap # 0 /\ ~(Len(g) > MemCap)
  <2>1. Len(g) <= MemCap
    BY <1>1, <1>2, <1>10, BoundsAssumption
  <2> QED
    BY <1>2, <1>3, <1>4, <1>7, <1>10, <2>1
<1> QED
  BY <1>8, <1>9, <1>10

-----------------------------------------------------------------------------
(***************************************************************************)
(* Where a call continues.  Leaves(r, s, p): the client goes on from r to  *)
(* s, holding no open entry any more, with the text it had, or p.          *)
(***************************************************************************)
Leaves(r, s, p) ==
    /\ s \in Client /\ Shape(s)
    /\ s.pc \notin {"meta", "payload", "rmKids"}
    /\ s.text # None => s.text \in {r.text, p} /\ s.key = r.key
    /\ s.temp # None => s.temp = r.temp /\ s.fd = r.fd /\ s.key = r.key
    /\ s.task = "purge" => r.task = "purge"

LEMMA TextsAreTold == None \notin Texts /\ Junk # None /\ Flipped \notin Texts /\ Torn \notin Texts
                      /\ NoFile \notin Texts /\ None \notin Dirs /\ None \notin Keys
BY NamesAssumption DEF Payloads

LEMMA IdleLeaves == Idle \in Client /\ Shape(Idle) /\ \A r, p : Leaves(r, Idle, p)
<1>1. 0 \in 0 .. MaxRetries
  BY BoundsAssumption
<1>2. Idle \in Client
  BY <1>1 DEF Idle, Client, Steps
<1>3. Shape(Idle)
  BY DEF Shape, Idle, Storing, Reading, Removing, Writing
<1> QED
  BY <1>2, <1>3 DEF Leaves, Idle

\* The fields of a client's state, each with a set of its own.
Calls == {"none", "generate", "put", "purge"}
Told == Payloads \cup {None}
Parts == Lookups \cup {"none", "discard", "collide", "cleanup", "purge"}
Handles == {"none", "live", "dead"}
Places == Dirs \cup {None}
Tokens == Keys \cup Dirs \cup {None}
Owners == Keys \cup {None}
Kids == SUBSET {"meta", "payload"}
Lists == SUBSET (Keys \cup Dirs)
Fates == {"none", "exists", "error"}
Counts == 0 .. MaxRetries

LEMMA ClientFields ==
    Client = [pc : Steps, op : Calls, key : Owners, text : Told, task : Parts, fd : Handles,
              dir : Places, sum : Told, at : Tokens, kids : Kids, todo : Lists,
              temp : Places, fate : Fates, tries : Counts]
BY DEF Client, Calls, Told, Parts, Handles, Places, Tokens, Owners, Kids, Lists, Fates, Counts

LEMMA FieldValues ==
    /\ None \in Places /\ None \in Told /\ None \in Tokens /\ None \in Owners
    /\ {} \in Kids /\ {} \in Lists
    /\ "none" \in Handles /\ "live" \in Handles /\ "dead" \in Handles
    /\ "none" \in Fates /\ "exists" \in Fates /\ "error" \in Fates
    /\ "none" \in Calls /\ "generate" \in Calls /\ "put" \in Calls /\ "purge" \in Calls
    /\ "first" \in Parts /\ "pre" \in Parts /\ "again" \in Parts /\ "none" \in Parts
    /\ "discard" \in Parts /\ "collide" \in Parts /\ "cleanup" \in Parts /\ "purge" \in Parts
    /\ Texts \subseteq Told /\ Payloads \subseteq Told /\ Junk \in Told
    /\ Keys \subseteq Owners /\ Keys \subseteq Tokens /\ Dirs \subseteq Tokens /\ Dirs \subseteq Places
    /\ 0 \in Counts
BY BoundsAssumption DEF Calls, Told, Parts, Handles, Places, Tokens, Owners, Kids, Lists, Fates,
                        Counts, Lookups, Payloads

LEMMA StepValues ==
    /\ "idle" \in Steps /\ "root" \in Steps /\ "shard" \in Steps /\ "stat" \in Steps
    /\ "open" \in Steps /\ "meta" \in Steps /\ "payload" \in Steps /\ "rmOpen" \in Steps
    /\ "rmKids" \in Steps /\ "rmShard" \in Steps /\ "own" \in Steps /\ "mkMarker" \in Steps
    /\ "wrMarker" \in Steps /\ "mkShard" \in Steps /\ "opShard" \in Steps /\ "mkTemp" \in Steps
    /\ "wrPayload" \in Steps /\ "wrMeta" \in Steps /\ "publish" \in Steps /\ "call" \in Steps
    /\ "return" \in Steps /\ "purge" \in Steps /\ "purgeList" \in Steps /\ "purgeNext" \in Steps
BY DEF Steps

\* Closing the handles of a call keeps what it is about.
LEMMA CloseKeeps ==
    ASSUME NEW r \in Client
    PROVE  /\ Close(r) \in Client
           /\ Close(r).pc = r.pc /\ Close(r).op = r.op /\ Close(r).key = r.key
           /\ Close(r).text = r.text /\ Close(r).task = r.task /\ Close(r).fd = "none"
           /\ Close(r).dir = None /\ Close(r).sum = None /\ Close(r).at = None
           /\ Close(r).kids = {} /\ Close(r).temp = None /\ Close(r).fate = "none"
           /\ Close(r).todo = r.todo /\ Close(r).tries = r.tries
BY ClientFields, FieldValues DEF Close

LEMMA LookupLeaves ==
    ASSUME NEW r \in Client, r.op = "generate", r.key \in Keys,
           NEW task \in {"first", "pre", "again", "discard"},
           task \in {"pre", "again"} => r.text \in Texts
    PROVE  /\ Leaves(r, Lookup(r, task), r.text)
           /\ Lookup(r, task).pc = "root" /\ Lookup(r, task).task = task
           /\ Lookup(r, task).op = r.op /\ Lookup(r, task).key = r.key
           /\ Lookup(r, task).text = r.text /\ Lookup(r, task).temp = None
<1> DEFINE s == Lookup(r, task)
           q == Close(r)
<1>0. q \in Client /\ q.op = r.op /\ q.key = r.key /\ q.text = r.text /\ q.temp = None
  BY CloseKeeps
<1> HIDE DEF q
<1>1. s \in Client
  <2>1. s = [q EXCEPT !.pc = "root", !.task = task]
    BY DEF Lookup, q
  <2>2. task \in Parts
    BY DEF Parts, Lookups
  <2> QED
    BY <1>0, <2>1, <2>2, ClientFields, StepValues
<1>2. /\ s.pc = "root" /\ s.task = task /\ s.op = r.op /\ s.key = r.key
      /\ s.text = r.text /\ s.temp = None
  <2>1. s = [q EXCEPT !.pc = "root", !.task = task]
    BY DEF Lookup, q
  <2> QED
    BY <1>0, <2>1, ClientFields
<1> HIDE DEF s
<1>3. Shape(s)
  BY <1>2 DEF Shape, Storing, Reading, Removing, Writing, Lookups
<1>4. Leaves(r, s, r.text)
  BY <1>1, <1>2, <1>3 DEF Leaves
<1> QED
  BY <1>2, <1>4 DEF s

\* A call is answered.
LEMMA ReturnLeaves ==
    ASSUME NEW r \in Client, r.op = "generate", r.key \in Keys, NEW t \in Texts,
           r.task \in Lookups \cup {"discard", "collide", "cleanup"}
    PROVE  LET s == [Close(r) EXCEPT !.pc = "return", !.text = t]
           IN  /\ Leaves(r, s, t)
               /\ s.pc = "return" /\ s.op = r.op /\ s.key = r.key /\ s.text = t
               /\ s.task = r.task /\ s.temp = None
<1> DEFINE s == [Close(r) EXCEPT !.pc = "return", !.text = t]
           q == Close(r)
<1>0. q \in Client /\ q.op = r.op /\ q.key = r.key /\ q.task = r.task /\ q.temp = None
  BY CloseKeeps
<1> HIDE DEF q
<1>1. /\ s \in Client
      /\ s.pc = "return" /\ s.op = r.op /\ s.key = r.key /\ s.text = t
      /\ s.task = r.task /\ s.temp = None
  <2>1. s = [q EXCEPT !.pc = "return", !.text = t]
    BY DEF q
  <2> QED
    BY <1>0, <2>1, ClientFields, FieldValues, StepValues
<1> HIDE DEF s
<1>4. Shape(s)
  BY <1>1 DEF Shape, Storing, Reading, Removing, Writing
<1>5. Leaves(r, s, t)
  BY <1>1, <1>4 DEF Leaves, Lookups
<1> QED
  BY <1>1, <1>5 DEF s

\* lookup found nothing.
LEMMA MissedLeaves ==
    ASSUME NEW r \in Client, Shape(r), r.pc # "idle", r.task \in Lookups \cup {"discard"}
    PROVE  LET s == Missed(r)
           IN  /\ Leaves(r, s, r.text)
               /\ s.op = r.op /\ s.key = r.key /\ s.text = r.text /\ s.task = r.task
               /\ s.temp = None /\ s.fd = "none"
               /\ s.pc = IF r.task = "pre" THEN "own" ELSE IF r.task = "again" THEN "return" ELSE "call"
<1> DEFINE s == Missed(r)
           q == Close(r)
           l == IF r.task = "pre" THEN "own" ELSE IF r.task = "again" THEN "return" ELSE "call"
<1>0. /\ q \in Client /\ q.op = r.op /\ q.key = r.key /\ q.text = r.text /\ q.task = r.task
      /\ q.temp = None /\ q.fd = "none"
  BY CloseKeeps
<1>1. s = [q EXCEPT !.pc = l] /\ l \in Steps
  BY StepValues DEF Missed
<1>2. l \in {"own", "return", "call"}
  OBVIOUS
<1>3. /\ l = "own" <=> r.task = "pre"
      /\ l = "return" <=> r.task = "again"
  OBVIOUS
<1> HIDE DEF q, l, s
<1>4. /\ s \in Client
      /\ s.op = r.op /\ s.key = r.key /\ s.text = r.text /\ s.task = r.task
      /\ s.temp = None /\ s.fd = "none" /\ s.pc = l
  BY <1>0, <1>1, ClientFields
<1>5. /\ r.op = "generate" => r.key \in Keys
      /\ r.op \in {"generate", "put"} /\ r.key \in Keys
      /\ r.task # "pre" => r.op = "generate"
      /\ r.task \in {"pre", "again"} /\ r.op = "generate" => r.text \in Texts
      /\ r.op = "put" => r.text = Junk
  BY DEF Shape, Lookups
<1>6. Shape(s)
  BY <1>2, <1>3, <1>4, <1>5 DEF Shape, Storing, Reading, Removing, Writing, Lookups
<1>7. Leaves(r, s, r.text)
  BY <1>2, <1>4, <1>6 DEF Leaves, Lookups
<1> QED
  BY <1>4, <1>7 DEF l, s

\* store returned.
LEMMA StoredLeaves ==
    ASSUME NEW r \in Client, r.op \in {"generate", "put"}, r.key \in Keys,
           r.op = "generate" => r.text \in Texts,
           r.task \in Lookups \cup {"discard", "collide", "cleanup"},
           NEW state \in {"exists", "stored"}
    PROVE  LET s == Stored(r, state)
           IN  /\ Leaves(r, s, r.text) /\ s.temp = None
               /\ r.op = "put" => s = Idle
               /\ r.op = "generate" =>
                     /\ s.op = r.op /\ s.key = r.key /\ s.text = r.text
                     /\ state = "exists" => s.pc = "root" /\ s.task = "again"
                     /\ state = "stored" => s.pc = "return" /\ s.task = r.task
<1>1. CASE r.op = "put"
  <2>1. Stored(r, state) = Idle
    BY <1>1 DEF Stored
  <2> QED
    BY <1>1, <2>1, IdleLeaves DEF Idle
<1>2. CASE r.op = "generate" /\ state = "exists"
  <2>1. Stored(r, state) = Lookup(r, "again")
    BY <1>2 DEF Stored
  <2> QED
    BY <1>2, <2>1, LookupLeaves
<1>3. CASE r.op = "generate" /\ state = "stored"
  <2> DEFINE q == Close(r)
             t == r.text
  <2>1. q \in Client /\ q.text = t
    BY CloseKeeps
  <2>2. Stored(r, state) = [q EXCEPT !.pc = "return"]
    BY <1>3 DEF Stored
  <2> HIDE DEF q
  <2>3. [q EXCEPT !.pc = "return"] = [q EXCEPT !.pc = "return", !.text = t]
    <3>1. [q EXCEPT !.pc = "return"].text = t
      BY <2>1, ClientFields
    <3> QED
      BY <2>1, <3>1, ClientFields
  <2>4. Stored(r, state) = [Close(r) EXCEPT !.pc = "return", !.text = t]
    BY <2>2, <2>3 DEF q
  <2>5. /\ Leaves(r, Stored(r, state), r.text)
        /\ Stored(r, state).pc = "return" /\ Stored(r, state).op = r.op
        /\ Stored(r, state).key = r.key /\ Stored(r, state).text = r.text
        /\ Stored(r, state).task = r.task /\ Stored(r, state).temp = None
    <3>1. t \in Texts
      BY <1>3
    <3> DEFINE z == [Close(r) EXCEPT !.pc = "return", !.text = t]
    <3>2. /\ Leaves(r, z, t)
          /\ z.pc = "return" /\ z.op = r.op /\ z.key = r.key /\ z.text = t
          /\ z.task = r.task /\ z.temp = None
      BY <1>3, <3>1, ReturnLeaves
    <3>3. Stored(r, state) = z
      BY <2>4
    <3> HIDE DEF z
    <3> QED
      BY <3>2, <3>3
  <2> QED
    BY <1>3, <2>5
<1> QED
  BY <1>1, <1>2, <1>3

\* store gives up its temporary directory.
LEMMA CleanupLeaves ==
    ASSUME NEW r \in Client, Shape(r), r.temp # None, r.task \in {"pre", "collide"},
           NEW fate \in {"exists", "error"}
    PROVE  LET s == Cleanup(r, fate)
           IN  /\ Leaves(r, s, r.text)
               /\ s.op = r.op /\ s.key = r.key /\ s.text = r.text /\ s.temp = r.temp
               /\ s.fd = r.fd /\ s.pc = "rmOpen" /\ s.task = "cleanup" /\ s.at = r.temp
               /\ s.fate = fate
<1> DEFINE s == Cleanup(r, fate)
<1>1. /\ s \in Client
      /\ s.op = r.op /\ s.key = r.key /\ s.text = r.text /\ s.temp = r.temp
      /\ s.fd = r.fd /\ s.pc = "rmOpen" /\ s.task = "cleanup" /\ s.at = r.temp /\ s.fate = fate
  <2>1. r.temp \in Dirs /\ fate \in Fates
    BY ClientFields DEF Places, Fates
  <2> QED
    BY <2>1, ClientFields, FieldValues, StepValues DEF Cleanup
<1> HIDE DEF s
<1>2. /\ r.op \in {"generate", "put"} /\ r.key \in Keys
      /\ r.op = "generate" => r.text \in Texts
      /\ r.op = "put" => r.text = Junk
  BY DEF Shape, Lookups, Idle
<1>3. Shape(s)
  BY <1>1, <1>2 DEF Shape, Storing, Reading, Removing, Writing, Lookups
<1>4. Leaves(r, s, r.text)
  BY <1>1, <1>3 DEF Leaves
<1> QED
  BY <1>1, <1>4 DEF s

\* What a call in progress, a purge aside, is about.
LEMMA CallShape ==
    ASSUME NEW r \in Client, Shape(r), r.pc # "idle", r.task # "purge"
    PROVE  /\ r.op \in {"generate", "put"} /\ r.key \in Keys
           /\ r.op = "generate" /\ r.task \in {"pre", "again", "collide", "cleanup"} =>
                 r.text \in Texts
           /\ r.op = "put" => r.text = Junk /\ r.task \in {"pre", "collide", "cleanup"}
           /\ r.task \in Lookups \cup {"discard", "collide", "cleanup"}
BY DEF Shape, Lookups

\* An entry cannot be read.
LEMMA UnreadableLeaves ==
    ASSUME NEW r \in Client, Shape(r), r.pc \in Reading
    PROVE  LET s == Unreadable(r)
           IN  /\ Leaves(r, s, r.text)
               /\ s.op = r.op /\ s.key = r.key /\ s.text = r.text /\ s.temp = r.temp /\ s.fd = r.fd
               /\ s.pc = "rmOpen"
               /\ s.task = IF r.task = "collide" THEN "cleanup" ELSE r.task
<1>1. r.task \in Lookups \cup {"collide"} /\ r.pc # "idle"
  BY DEF Shape, Reading
<1>2. CASE r.task = "collide"
  <2>1. Unreadable(r) = Cleanup(r, "error") /\ r.temp # None
    BY <1>2 DEF Unreadable, Shape
  <2> QED
    BY <1>2, <2>1, CleanupLeaves
<1>3. CASE r.task # "collide"
  <2> DEFINE s == [r EXCEPT !.pc = "rmOpen", !.at = r.key, !.dir = None, !.sum = None]
  <2>1. r.task \in Lookups /\ r.key \in Keys /\ r.temp = None
    BY <1>1, <1>3, CallShape DEF Shape, Reading, Writing, Removing, Lookups
  <2>2. /\ s \in Client
        /\ s.op = r.op /\ s.key = r.key /\ s.text = r.text /\ s.temp = r.temp /\ s.fd = r.fd
        /\ s.pc = "rmOpen" /\ s.task = r.task /\ s.at = r.key
    BY <2>1, ClientFields, FieldValues, StepValues
  <2>3. Unreadable(r) = s
    BY <1>3 DEF Unreadable
  <2> HIDE DEF s
  <2>4. Shape(s)
    BY <1>1, <2>1, <2>2, CallShape DEF Shape, Storing, Reading, Removing, Writing, Lookups
  <2>5. Leaves(r, s, r.text)
    BY <2>2, <2>4 DEF Leaves
  <2> QED
    BY <1>3, <2>2, <2>3, <2>5
<1> QED
  BY <1>2, <1>3

\* An entry has been read and is the payload p.
LEMMA FoundLeaves ==
    ASSUME NEW r \in Client, Shape(r), r.pc = "payload", NEW p \in Payloads
    PROVE  LET s == Found(r, p)
           IN  /\ Leaves(r, s, p)
               /\ r.task = "collide" => s = Cleanup(r, "exists") /\ r.temp # None
               /\ r.task # "collide" => s.temp = None
               /\ r.task = "pre" => s = Stored(r, "exists")
               /\ r.task \in {"first", "again"} /\ p \in Texts =>
                     /\ s.pc = "return" /\ s.op = r.op /\ s.key = r.key /\ s.text = p
                     /\ s.task = r.task
               /\ s.text = p \/ s.text = r.text \/ s.text = None
<1>1. r.task \in Lookups \cup {"collide"} /\ r.pc # "idle" /\ r.pc \in Reading
  BY DEF Shape, Reading
<1>2. CASE r.task = "collide"
  <2>1. Found(r, p) = Cleanup(r, "exists") /\ r.temp # None
    BY <1>1, <1>2 DEF Found, Shape
  <2>2. Leaves(r, Found(r, p), r.text)
    BY <1>2, <2>1, CleanupLeaves
  <2> QED
    BY <1>2, <2>1, <2>2 DEF Leaves
<1>3. CASE r.task = "pre"
  <2>1. Found(r, p) = Stored(r, "exists")
    BY <1>3 DEF Found
  <2>2. Leaves(r, Stored(r, "exists"), r.text) /\ Stored(r, "exists").temp = None
    BY <1>1, <1>3, CallShape, StoredLeaves
  <2> QED
    BY <1>3, <2>1, <2>2 DEF Leaves
<1>4. CASE r.task \in {"first", "again"} /\ Decodes(p)
  <2>1. Found(r, p) = [Close(r) EXCEPT !.pc = "return", !.text = p]
    BY <1>4 DEF Found
  <2>2. p \in Texts
    BY <1>4, NamesAssumption DEF Decodes
  <2>3. r.op = "generate" /\ r.key \in Keys
    BY <1>1, <1>4, CallShape
  <2> DEFINE z == [Close(r) EXCEPT !.pc = "return", !.text = p]
  <2>4. /\ Leaves(r, z, p)
        /\ z.pc = "return" /\ z.op = r.op /\ z.key = r.key /\ z.text = p
        /\ z.task = r.task /\ z.temp = None
    BY <1>1, <1>4, <2>2, <2>3, ReturnLeaves
  <2>5. Found(r, p) = z
    BY <2>1
  <2> HIDE DEF z
  <2> QED
    BY <1>4, <2>4, <2>5
<1>5. CASE r.task = "again" /\ ~Decodes(p)
  <2>1. Found(r, p) = Missed(r)
    BY <1>5 DEF Found, Missed
  <2>2. Leaves(r, Missed(r), r.text) /\ Missed(r).temp = None /\ Missed(r).text = r.text
    BY <1>1, <1>5, MissedLeaves
  <2>3. p \notin Texts
    BY <1>5 DEF Decodes
  <2> QED
    BY <1>5, <2>1, <2>2, <2>3 DEF Leaves
<1>6. CASE r.task = "first" /\ ~Decodes(p)
  <2>1. Found(r, p) = Lookup(r, "discard")
    BY <1>6 DEF Found
  <2>2. r.op = "generate" /\ r.key \in Keys
    BY <1>1, <1>6, CallShape
  <2>3. /\ Leaves(r, Lookup(r, "discard"), r.text) /\ Lookup(r, "discard").temp = None
        /\ Lookup(r, "discard").text = r.text
    BY <2>2, LookupLeaves
  <2>4. p \notin Texts
    BY <1>6 DEF Decodes
  <2> QED
    BY <1>6, <2>1, <2>3, <2>4 DEF Leaves
<1> QED
  BY <1>1, <1>2, <1>3, <1>4, <1>5, <1>6 DEF Lookups

\* A tree has been removed, or has gone.
LEMMA RemovedLeaves ==
    ASSUME NEW r \in Client, Shape(r), r.pc \in Removing
    PROVE  LET s == RemovedTree(r)
           IN  /\ Leaves(r, s, r.text) /\ s.temp = None
               /\ r.task = "cleanup" =>
                     s = IF r.fate = "exists" THEN Stored(r, "exists") ELSE Idle
<1>1. r.task \in Lookups \cup {"discard", "cleanup", "purge"} /\ r.pc # "idle"
  BY DEF Shape, Removing
<1>2. CASE r.task = "cleanup"
  <2>1. RemovedTree(r) = IF r.fate = "exists" THEN Stored(r, "exists") ELSE Idle
    BY <1>2 DEF RemovedTree
  <2>2. Leaves(r, Stored(r, "exists"), r.text) /\ Stored(r, "exists").temp = None
    BY <1>1, <1>2, CallShape, StoredLeaves
  <2> QED
    BY <1>2, <2>1, <2>2, IdleLeaves DEF Idle
<1>3. CASE r.task = "purge"
  <2> DEFINE s == [r EXCEPT !.pc = "purgeNext", !.dir = None, !.at = None]
  <2>0. r.temp = None
    BY <1>3 DEF Shape, Reading, Writing, Removing
  <2>1. /\ s \in Client
        /\ s.op = r.op /\ s.key = r.key /\ s.text = r.text /\ s.temp = r.temp
        /\ s.pc = "purgeNext" /\ s.task = "purge"
    BY <1>3, ClientFields, FieldValues, StepValues
  <2>2. RemovedTree(r) = s /\ r.op = "purge"
    BY <1>1, <1>3 DEF RemovedTree, Shape, Lookups
  <2> HIDE DEF s
  <2>3. Shape(s)
    BY <2>0, <2>1, <2>2 DEF Shape, Storing, Reading, Removing, Writing
  <2>4. Leaves(r, s, r.text)
    BY <1>3, <2>0, <2>1, <2>3 DEF Leaves
  <2> QED
    BY <1>3, <2>0, <2>1, <2>2, <2>4
<1>4. CASE r.task \notin {"cleanup", "purge"}
  <2> DEFINE s == [r EXCEPT !.pc = "rmShard", !.dir = None]
  <2>0. r.temp = None
    BY <1>1, <1>4 DEF Shape, Reading, Writing, Removing, Lookups
  <2>1. /\ s \in Client
        /\ s.op = r.op /\ s.key = r.key /\ s.text = r.text /\ s.temp = r.temp
        /\ s.pc = "rmShard" /\ s.task = r.task
    BY ClientFields, FieldValues, StepValues
  <2>2. RemovedTree(r) = s
    BY <1>4 DEF RemovedTree
  <2> HIDE DEF s
  <2>3. Shape(s)
    BY <1>1, <1>4, <2>0, <2>1, CallShape DEF Shape, Storing, Reading, Removing, Writing, Lookups
  <2>4. Leaves(r, s, r.text)
    BY <2>0, <2>1, <2>3 DEF Leaves
  <2> QED
    BY <1>4, <2>0, <2>1, <2>2, <2>4
<1> QED
  BY <1>2, <1>3, <1>4

LEMMA VanishedLeaves ==
    ASSUME NEW r \in Client, Shape(r), r.pc \in Removing
    PROVE  /\ Leaves(r, VanishedTree(r), r.text) /\ VanishedTree(r).temp = None
           /\ r.task = "cleanup" => VanishedTree(r) = RemovedTree(r)
<1>1. r.task \in Lookups \cup {"discard", "cleanup", "purge"} /\ r.pc # "idle"
  BY DEF Shape, Removing
<1>2. CASE r.task = "cleanup"
  BY <1>2, RemovedLeaves DEF VanishedTree
<1>3. CASE r.task = "discard"
  BY <1>1, <1>3, MissedLeaves DEF VanishedTree
<1>4. CASE r.task \notin {"cleanup", "discard"}
  <2>1. VanishedTree(r) = Idle
    BY <1>4 DEF VanishedTree
  <2> QED
    BY <1>4, <2>1, IdleLeaves DEF Idle
<1> QED
  BY <1>2, <1>3, <1>4

-----------------------------------------------------------------------------
(***************************************************************************)
(* What a step of one client leaves of the invariant.                      *)
(***************************************************************************)
\* No file of d says anything new.
Worn(d) == /\ files'[d].meta \in {files[d].meta, NoFile, Torn}
           /\ files'[d].payload \in {files[d].payload, NoFile, Torn, Flipped}

\* The same place in the same call, whatever became of the handle on the shard.
Alike(q, r) == /\ q.pc = r.pc /\ q.key = r.key /\ q.text = r.text /\ q.task = r.task
               /\ q.dir = r.dir /\ q.sum = r.sum /\ q.kids = r.kids /\ q.temp = r.temp

Typed == /\ marker \in {"absent", "partial", "ok"}
         /\ shard \in BOOLEAN
         /\ entry \in [Keys -> Dirs \cup {None}]
         /\ temps \subseteq Dirs
         /\ files \in [Dirs -> Files]
         /\ produced \subseteq Keys \X Payloads
         /\ answers \subseteq Keys \X Texts
         /\ met \subseteq Faults /\ Cardinality(met) <= MaxFaults

\* What a client c that goes on to s leaves of the disk, and of the others' work there.
Fits(c, s) ==
    /\ produced \subseteq produced' /\ met \subseteq met'
    /\ \A d \in Dirs : Worn(d) \/ (d = me[c].temp /\ d = s.temp)
    /\ \A b \in Clients \ {c} : me[b].temp # None =>
          /\ me[b].temp \in temps' => me[b].temp \in temps
          /\ NoPurge' => files'[me[b].temp] = files[me[b].temp]
    /\ s.temp \in {None, me[c].temp} \/ (s.temp \in Dirs /\ Fresh(s.temp))
    /\ \A k \in Keys : \/ entry'[k] \in {None, entry[k]}
                       \/ k = me[c].key /\ entry'[k] = me[c].temp /\ s.temp = None
    /\ Opened(s) => s.dir # s.temp /\ \A b \in Clients : s.dir # me[b].temp
    /\ NoPurge' => \A d \in temps' : d = s.temp \/ (d \in temps /\ d # me[c].temp)

\* The client stands at s, the others where they stood.
Turns(c, s) ==
    /\ me' \in [Clients -> Client] /\ me'[c] = s /\ Shape(s)
    /\ \A b \in Clients \ {c} :
          Shape(me'[b]) /\ Alike(me'[b], me[b]) /\ (me'[b].fd = me[b].fd \/ temps' = {})

LEMMA TempType == SafeInv => \A c \in Clients : /\ me[c] \in Client /\ me[c].temp \in Dirs \cup {None}
                                                /\ me[c].dir \in Dirs \cup {None}
BY DEF SafeInv, TypeOK, Client

LEMMA WornSound ==
    ASSUME NEW d, NEW k, Worn(d), produced \subseteq produced', Sound(d, k)
    PROVE  Sound(d, k)'
BY DEF Worn, Sound

\* Of the others' work.
LEMMA OthersLinked ==
    ASSUME SafeInv, NEW c \in Clients, NEW s, Fits(c, s), Turns(c, s), NEW b \in Clients \ {c}
    PROVE  Linked(me[b])'
<1>0. PICK r, q : r = me[b] /\ q = me'[b]
  OBVIOUS
<1>1. Shape(r) /\ Linked(r) /\ r \in Client
  BY <1>0 DEF SafeInv, TypeOK
<1>2. Alike(q, r) /\ (q.fd = r.fd \/ temps' = {}) /\ produced \subseteq produced' /\ met \subseteq met'
  BY <1>0 DEF Turns, Fits
<1>3. ASSUME r.temp # None
      PROVE  /\ Sound(r.temp, r.key) /\ Worn(r.temp)
             /\ r.temp \in temps' => r.temp \in temps
             /\ NoPurge' => files'[r.temp] = files[r.temp]
  <2>1. r.temp \in Dirs /\ r.temp # me[c].temp
    BY <1>0, <1>3, TempType DEF SafeInv, Separate
  <2> QED
    BY <1>0, <1>1, <1>3, <2>1 DEF Fits, Linked
<1>4. ASSUME r.pc \in {"meta", "payload"}
      PROVE  Sound(r.dir, r.key) /\ Worn(r.dir)
  <2>1. r.dir \in Dirs /\ r.dir # me[c].temp
    BY <1>0, <1>1, <1>4, TempType DEF SafeInv, Separate, Shape, Opened
  <2> QED
    BY <1>0, <1>1, <1>4, <2>1 DEF Fits, Linked
<1>5. q.text # None => <<q.key, q.text>> \in produced'
  BY <1>1, <1>2 DEF Linked, Alike
<1>6. q.temp # None => Sound(q.temp, q.key)'
  <2> SUFFICES ASSUME q.temp # None PROVE Sound(q.temp, q.key)'
    OBVIOUS
  <2>1. Sound(r.temp, r.key) /\ Worn(r.temp) /\ q.temp = r.temp /\ q.key = r.key
    BY <1>2, <1>3 DEF Alike
  <2> QED
    BY <1>2, <2>1, WornSound
<1>7. q.pc \in {"meta", "payload"} => Sound(q.dir, q.key)'
  <2> SUFFICES ASSUME q.pc \in {"meta", "payload"} PROVE Sound(q.dir, q.key)'
    OBVIOUS
  <2>1. Sound(r.dir, r.key) /\ Worn(r.dir) /\ q.dir = r.dir /\ q.key = r.key
    BY <1>2, <1>4 DEF Alike
  <2> QED
    BY <1>2, <2>1, WornSound
<1>8. q.pc = "payload" => <<q.key, q.sum>> \in produced'
  BY <1>1, <1>2 DEF Linked, Alike
<1>9. q.temp # None /\ q.fd # "live" => q.temp \notin temps'
  BY <1>1, <1>2, <1>3 DEF Linked, Alike
<1>10. q.task = "purge" => "purge" \in met'
  BY <1>1, <1>2 DEF Linked, Alike
<1>11. NoPurge' /\ q.pc = "rmKids" /\ q.task = "cleanup" => q.kids = Children(q.temp)'
  <2> SUFFICES ASSUME NoPurge', q.pc = "rmKids", q.task = "cleanup"
               PROVE  q.kids = Children(q.temp)'
    OBVIOUS
  <2>1. NoPurge
    BY <1>2 DEF NoPurge
  <2>2. r.temp # None /\ r.kids = Children(r.temp)
    BY <1>1, <1>2, <2>1 DEF Linked, Shape, Removing, Alike
  <2>3. files'[r.temp] = files[r.temp] /\ q.temp = r.temp /\ q.kids = r.kids
    BY <1>2, <1>3, <2>2 DEF Alike
  <2> QED
    BY <2>2, <2>3 DEF Children
<1> QED
  BY <1>0, <1>5, <1>6, <1>7, <1>8, <1>9, <1>10, <1>11 DEF Linked

LEMMA StepSeparate ==
    ASSUME SafeInv, NEW c \in Clients, NEW s, Fits(c, s), Turns(c, s)
    PROVE  Separate'
<1>0. /\ me'[c] = s /\ Shape(s) /\ \A b \in Clients : me[b] \in Client /\ Shape(me[b])
      /\ \A b \in Clients \ {c} : /\ me'[b].temp = me[b].temp /\ me'[b].dir = me[b].dir
                                  /\ Opened(me'[b]) <=> Opened(me[b])
  BY DEF Turns, Alike, Opened, SafeInv, TypeOK
<1>1. ASSUME NEW b \in Clients \ {c}, s.temp # None
      PROVE  s.temp # me[b].temp /\ (Opened(me[b]) => s.temp # me[b].dir)
  <2>1. CASE s.temp = me[c].temp
    BY <1>1, <2>1 DEF SafeInv, Separate
  <2>2. CASE Fresh(s.temp)
    BY <2>2 DEF Fresh
  <2> QED
    BY <1>1, <2>1, <2>2 DEF Fits
<1>2. ASSUME NEW a \in Clients, NEW b \in Clients, me'[a].temp # None, me'[a].temp = me'[b].temp
      PROVE  a = b
  <2>1. CASE a = c \/ b = c
    BY <1>0, <1>1, <1>2, <2>1
  <2>2. CASE a # c /\ b # c
    <3>1. me[a].temp # None /\ me[a].temp = me[b].temp
      BY <1>0, <1>2, <2>2
    <3> QED
      BY <3>1 DEF SafeInv, Separate
  <2> QED
    BY <2>1, <2>2
<1>3. ASSUME NEW b \in Clients, NEW k \in Keys, entry'[k] # None
      PROVE  entry'[k] # me'[b].temp
  <2>1. CASE entry'[k] = entry[k]
    <3>1. \A a \in Clients : entry[k] # me[a].temp
      BY <1>3, <2>1 DEF SafeInv, Separate
    <3>2. entry[k] # s.temp
      BY <1>3, <2>1, <3>1 DEF Fits, Fresh
    <3> QED
      BY <1>0, <2>1, <3>1, <3>2
  <2>2. CASE entry'[k] = me[c].temp /\ s.temp = None
    <3>1. \A a \in Clients \ {c} : me[a].temp # me[c].temp
      BY <1>3, <2>2 DEF SafeInv, Separate
    <3> QED
      BY <1>0, <1>3, <2>2, <3>1
  <2> QED
    BY <1>3, <2>1, <2>2 DEF Fits
<1>4. ASSUME NEW a \in Clients, NEW b \in Clients, Opened(me'[a])
      PROVE  me'[a].dir # me'[b].temp
  <2>1. CASE a = c
    <3>1. s.dir # s.temp /\ \A e \in Clients : s.dir # me[e].temp
      BY <1>0, <1>4, <2>1 DEF Fits
    <3> QED
      BY <1>0, <2>1, <3>1
  <2>2. CASE a # c /\ b = c
    <3>1. Opened(me[a]) /\ me'[a].dir = me[a].dir /\ me'[b].temp = s.temp
      BY <1>0, <1>4, <2>2
    <3>2. me[a].dir # None
      BY <1>0, <3>1 DEF Shape, Opened
    <3> QED
      BY <1>1, <2>2, <3>1, <3>2
  <2>3. CASE a # c /\ b # c
    <3>1. Opened(me[a]) /\ me'[a].dir = me[a].dir /\ me'[b].temp = me[b].temp
      BY <1>0, <1>4, <2>3
    <3> QED
      BY <3>1 DEF SafeInv, Separate
  <2> QED
    BY <2>1, <2>2, <2>3
<1>5. (\A a, b \in Clients : Opened(me[a]) => me[a].dir # me[b].temp)'
  BY <1>4 DEF Opened
<1> QED
  BY <1>2, <1>3, <1>5 DEF Separate

LEMMA StepEntries ==
    ASSUME SafeInv, NEW c \in Clients, NEW s, Fits(c, s)
    PROVE  EntriesSound'
<1> SUFFICES ASSUME NEW k \in Keys, NEW d, d = entry'[k], d # None PROVE Sound(d, k)'
  BY DEF EntriesSound
<1>1. d \in {entry[k], me[c].temp} /\ d \in Dirs /\ Sound(d, k) /\ Worn(d)
  <2>1. CASE d = entry[k]
    <3>1. d \in Dirs /\ d # me[c].temp /\ Sound(d, k)
      BY <2>1 DEF SafeInv, TypeOK, Separate, EntriesSound
    <3> QED
      BY <2>1, <3>1 DEF Fits
  <2>2. CASE d = me[c].temp /\ k = me[c].key /\ s.temp = None
    <3>1. d \in Dirs /\ Sound(d, k)
      BY <2>2, TempType DEF SafeInv, Linked
    <3> QED
      BY <2>2, <3>1 DEF Fits
  <2> QED
    BY <2>1, <2>2 DEF Fits
<1> QED
  BY <1>1, WornSound DEF Fits

\* A step keeps the invariant if it fits and its client's state and history are sound.
LEMMA SafeStep ==
    ASSUME SafeInv, NEW c \in Clients, NEW s, Fits(c, s), Turns(c, s), Linked(me[c])',
           Typed', IsFiniteSet(met'),
           mem' \in [Clients -> Seq(Keys \X Texts)],
           \A b \in Clients : Dictionary(mem'[b]) /\ Len(mem'[b]) <= MemCap,
           AnswersProduced'
    PROVE  SafeInv'
<1>1. TypeOK'
  BY DEF Typed, TypeOK, Turns
<1>2. ASSUME NEW b \in Clients PROVE (Shape(me[b]) /\ Linked(me[b]))'
  <2>1. CASE b = c
    BY <2>1 DEF Turns, Shape
  <2>2. CASE b # c
    <3>1. Linked(me[b])'
      BY <2>2, OthersLinked
    <3> QED
      BY <2>2, <3>1 DEF Turns, Shape
  <2> QED
    BY <2>1, <2>2
<1>3. NoOrphanTemps'
  <2> SUFFICES ASSUME NoPurge', NEW d \in temps' PROVE \E b \in Clients : me'[b].temp = d
    BY DEF NoOrphanTemps, NoPurge
  <2>1. NoPurge
    BY DEF Fits, NoPurge
  <2>2. CASE d = s.temp
    BY <2>2 DEF Turns
  <2>3. CASE d \in temps /\ d # me[c].temp
    <3>1. PICK b \in Clients : me[b].temp = d
      BY <2>1, <2>3 DEF SafeInv, NoOrphanTemps, NoPurge
    <3>2. b # c
      BY <2>3, <3>1
    <3> QED
      BY <3>1, <3>2 DEF Turns, Alike
  <2> QED
    BY <2>2, <2>3 DEF Fits
<1>4. Separate' /\ EntriesSound'
  BY StepSeparate, StepEntries
<1>5. (\A b \in Clients : Shape(me[b]) /\ Linked(me[b]) /\ Dictionary(mem[b]))'
  BY <1>2 DEF Dictionary
<1> QED
  BY <1>1, <1>3, <1>4, <1>5 DEF SafeInv

\* A step that only moves its own client, and leaves the disk, the caches and the history alone.
LEMMA ReadStep ==
    ASSUME SafeInv, NEW c \in Clients, NEW s \in Client, me' = [me EXCEPT ![c] = s],
           UNCHANGED <<disk, history, met>>, Shape(s), Linked(s),
           s.temp \in {None, me[c].temp},
           Opened(s) => \A b \in Clients : s.dir # me[b].temp,
           s.temp = me[c].temp \/ me[c].temp \notin temps \/ ~NoPurge
    PROVE  SafeInv'
<1>0. /\ marker' = marker /\ shard' = shard /\ entry' = entry /\ temps' = temps /\ files' = files
      /\ mem' = mem /\ produced' = produced /\ answers' = answers /\ met' = met
  BY DEF disk, history
<1>1. me \in [Clients -> Client] /\ \A b \in Clients : Shape(me[b]) /\ Linked(me[b])
  BY DEF SafeInv, TypeOK
<1>2. Turns(c, s)
  BY <1>1 DEF Turns, Alike
<1>3. Opened(s) => s.dir # s.temp
  <2>1. Opened(s) => s.dir # None
    BY DEF Shape, Opened
  <2> QED
    BY <2>1
<1>4. Fits(c, s)
  <2>1. \A d : Worn(d)
    BY <1>0 DEF Worn
  <2>2. NoPurge' <=> NoPurge
    BY <1>0 DEF NoPurge
  <2>3. NoPurge' => \A d \in temps' : d = s.temp \/ (d \in temps /\ d # me[c].temp)
    BY <1>0, <2>2
  <2> QED
    BY <1>0, <1>3, <2>1, <2>3 DEF Fits
<1>5. Linked(s)'
  BY <1>0 DEF Linked, Sound, NoPurge, Children
<1>6. Linked(me[c])'
  BY <1>1, <1>5 DEF Linked
<1>7. /\ Typed' /\ IsFiniteSet(met') /\ mem' \in [Clients -> Seq(Keys \X Texts)]
      /\ \A b \in Clients : Dictionary(mem'[b]) /\ Len(mem'[b]) <= MemCap
      /\ AnswersProduced'
  BY <1>0 DEF SafeInv, TypeOK, Typed, AnswersProduced
<1> QED
  BY <1>2, <1>4, <1>6, <1>7, SafeStep

LEMMA LeavesLinked ==
    ASSUME NEW r, Linked(r), NEW s, NEW p, Leaves(r, s, p),
           p = r.text \/ <<r.key, p>> \in produced
    PROVE  Linked(s) /\ ~Opened(s) /\ s.temp \in {None, r.temp}
<1>1. s.text # None => <<s.key, s.text>> \in produced
  BY DEF Leaves, Linked
<1>2. s.temp # None => s.temp = r.temp /\ s.fd = r.fd /\ s.key = r.key
  BY DEF Leaves
<1> QED
  BY <1>1, <1>2 DEF Leaves, Linked, Opened

LEMMA LeaveStep ==
    ASSUME SafeInv, NEW c \in Clients, NEW s, NEW p, me' = [me EXCEPT ![c] = s],
           UNCHANGED <<disk, history, met>>, Leaves(me[c], s, p),
           p = me[c].text \/ <<me[c].key, p>> \in produced,
           s.temp = me[c].temp \/ me[c].temp \notin temps \/ ~NoPurge
    PROVE  SafeInv'
<1>1. Linked(me[c])
  BY DEF SafeInv
<1>2. Linked(s) /\ ~Opened(s) /\ s.temp \in {None, me[c].temp}
  BY <1>1, LeavesLinked
<1>3. s \in Client /\ Shape(s)
  BY DEF Leaves
<1> QED
  BY <1>2, <1>3, ReadStep

-----------------------------------------------------------------------------
(***************************************************************************)
(* lookup, and the reading of an entry.                                    *)
(***************************************************************************)
LEMMA Here == SafeInv => \A c \in Clients : me[c] \in Client /\ Shape(me[c]) /\ Linked(me[c])
BY DEF SafeInv, TypeOK

\* A client that goes on to another step of the same call, its handle on the shard open or as it was.
LEMMA GoStep ==
    ASSUME SafeInv, NEW c \in Clients, NEW s \in Client, me' = [me EXCEPT ![c] = s],
           UNCHANGED <<disk, history, met>>, Shape(s),
           s.pc \notin {"meta", "payload", "rmKids"},
           s.key = me[c].key, s.text = me[c].text, s.temp = me[c].temp,
           s.task = "purge" => "purge" \in met,
           s.fd \in {"live", me[c].fd}
    PROVE  SafeInv'
<1>1. Linked(me[c])
  BY Here
<1>2. Linked(s)
  BY <1>1 DEF Linked
<1>3. ~Opened(s)
  BY DEF Opened
<1> QED
  BY <1>2, <1>3, ReadStep

LEMMA FailStep ==
    ASSUME SafeInv, NEW c \in Clients, me' = [me EXCEPT ![c] = Idle],
           UNCHANGED <<disk, history, met>>, me[c].temp = None \/ me[c].temp \notin temps \/ ~NoPurge
    PROVE  SafeInv'
<1>1. Leaves(me[c], Idle, me[c].text) /\ Idle.temp = None
  BY IdleLeaves DEF Idle
<1> QED
  BY <1>1, LeaveStep

LEMMA ValidateRootSafe == ASSUME SafeInv, NEW c \in Clients, ValidateRoot(c) PROVE SafeInv'
<1> DEFINE r == me[c]
<1>1. /\ r \in Client /\ Shape(r) /\ Linked(r) /\ r.pc = "root" /\ r.temp = None
      /\ r.task \in Lookups \cup {"discard"} /\ UNCHANGED <<disk, history, met>>
  <2>1. r \in Client /\ Shape(r) /\ Linked(r) /\ r.pc = "root" /\ UNCHANGED <<disk, history, met>>
    BY Here DEF ValidateRoot, At
  <2> QED
    BY <2>1 DEF Shape, Reading, Writing, Removing
<1>2. CASE marker = "ok"
  <2> DEFINE s == [r EXCEPT !.pc = "shard"]
  <2>1. /\ s \in Client /\ s.pc = "shard" /\ s.op = r.op /\ s.key = r.key /\ s.text = r.text
        /\ s.task = r.task /\ s.temp = r.temp /\ s.fd = r.fd
    BY <1>1, ClientFields, StepValues
  <2>2. me' = [me EXCEPT ![c] = s]
    BY <1>2 DEF ValidateRoot, Go
  <2> HIDE DEF r, s
  <2>3. Shape(s)
    BY <1>1, <2>1, CallShape DEF Shape, Storing, Reading, Removing, Writing, Lookups
  <2> QED
    BY <1>1, <2>1, <2>2, <2>3, GoStep DEF Lookups, r
<1>3. CASE marker = "partial"
  <2>1. me' = [me EXCEPT ![c] = Idle]
    BY <1>3 DEF ValidateRoot, Fail, Become
  <2> QED
    BY <1>1, <2>1, FailStep
<1>4. CASE marker \notin {"ok", "partial"}
  <2>1. me' = [me EXCEPT ![c] = Missed(r)]
    BY <1>4 DEF ValidateRoot, Become
  <2>2. Leaves(r, Missed(r), r.text) /\ Missed(r).temp = None
    BY <1>1, MissedLeaves
  <2> QED
    BY <1>1, <2>1, <2>2, LeaveStep
<1> QED
  BY <1>2, <1>3, <1>4

LEMMA OpenShardSafe == ASSUME SafeInv, NEW c \in Clients, OpenShard(c) PROVE SafeInv'
<1> DEFINE r == me[c]
<1>1. /\ r \in Client /\ Shape(r) /\ Linked(r) /\ r.pc = "shard" /\ r.temp = None
      /\ r.task \in Lookups \cup {"discard"} /\ UNCHANGED <<disk, history, met>>
  <2>1. r \in Client /\ Shape(r) /\ Linked(r) /\ r.pc = "shard" /\ UNCHANGED <<disk, history, met>>
    BY Here DEF OpenShard, At
  <2> QED
    BY <2>1 DEF Shape, Reading, Writing, Removing
<1>2. CASE shard /\ r.task = "discard"
  <2> DEFINE s == [r EXCEPT !.fd = "live", !.pc = "rmOpen", !.at = r.key]
  <2>0. r.key \in Keys /\ r.pc # "idle" /\ r.task # "purge"
    BY <1>1, CallShape DEF Lookups
  <2>1. /\ s \in Client /\ s.pc = "rmOpen" /\ s.op = r.op /\ s.key = r.key /\ s.text = r.text
        /\ s.task = r.task /\ s.temp = r.temp /\ s.fd = "live" /\ s.at = r.key
    BY <1>1, <2>0, ClientFields, FieldValues, StepValues
  <2>2. me' = [me EXCEPT ![c] = s]
    BY <1>2 DEF OpenShard, Become
  <2> HIDE DEF r, s
  <2>3. Shape(s)
    BY <1>1, <1>2, <2>0, <2>1, CallShape DEF Shape, Storing, Reading, Removing, Writing, Lookups
  <2> QED
    BY <1>1, <2>0, <2>1, <2>2, <2>3, GoStep DEF r
<1>3. CASE shard /\ r.task # "discard"
  <2> DEFINE s == [r EXCEPT !.fd = "live", !.pc = "stat"]
  <2>0. r.key \in Keys /\ r.pc # "idle" /\ r.task # "purge"
    BY <1>1, CallShape DEF Lookups
  <2>1. /\ s \in Client /\ s.pc = "stat" /\ s.op = r.op /\ s.key = r.key /\ s.text = r.text
        /\ s.task = r.task /\ s.temp = r.temp /\ s.fd = "live"
    BY <1>1, <2>0, ClientFields, FieldValues, StepValues
  <2>2. me' = [me EXCEPT ![c] = s]
    BY <1>3 DEF OpenShard
  <2> HIDE DEF r, s
  <2>3. Shape(s)
    BY <1>1, <1>3, <2>0, <2>1, CallShape DEF Shape, Storing, Reading, Removing, Writing, Lookups
  <2> QED
    BY <1>1, <2>0, <2>1, <2>2, <2>3, GoStep DEF r
<1>4. CASE ~shard /\ r.task = "discard"
  <2>1. me' = [me EXCEPT ![c] = Idle]
    BY <1>4 DEF OpenShard, Fail, Become
  <2> QED
    BY <1>1, <2>1, FailStep
<1>5. CASE ~shard /\ r.task # "discard"
  <2>1. me' = [me EXCEPT ![c] = Missed(r)]
    BY <1>5 DEF OpenShard, Become
  <2>2. Leaves(r, Missed(r), r.text) /\ Missed(r).temp = None
    BY <1>1, MissedLeaves
  <2> QED
    BY <1>1, <2>1, <2>2, LeaveStep
<1> QED
  BY <1>2, <1>3, <1>4, <1>5

LEMMA StatEntrySafe == ASSUME SafeInv, NEW c \in Clients, StatEntry(c) PROVE SafeInv'
<1> DEFINE r == me[c]
<1>1. /\ r \in Client /\ Shape(r) /\ Linked(r) /\ r.pc = "stat" /\ r.temp = None
      /\ r.task \in Lookups /\ UNCHANGED <<disk, history, met>>
  <2>1. r \in Client /\ Shape(r) /\ Linked(r) /\ r.pc = "stat" /\ UNCHANGED <<disk, history, met>>
    BY Here DEF StatEntry, At
  <2> QED
    BY <2>1 DEF Shape, Reading, Writing, Removing
<1>2. CASE Resolve(c, r.key) = None
  <2>1. me' = [me EXCEPT ![c] = Missed(r)]
    BY <1>2 DEF StatEntry, Become
  <2>2. Leaves(r, Missed(r), r.text) /\ Missed(r).temp = None
    BY <1>1, MissedLeaves
  <2> QED
    BY <1>1, <2>1, <2>2, LeaveStep
<1>3. CASE Resolve(c, r.key) # None
  <2> DEFINE s == [r EXCEPT !.pc = "open"]
  <2>1. /\ s \in Client /\ s.pc = "open" /\ s.op = r.op /\ s.key = r.key /\ s.text = r.text
        /\ s.task = r.task /\ s.temp = r.temp /\ s.fd = r.fd
    BY <1>1, ClientFields, StepValues
  <2>2. me' = [me EXCEPT ![c] = s]
    BY <1>3 DEF StatEntry, Go
  <2> HIDE DEF r, s
  <2>3. Shape(s)
    BY <1>1, <2>1, CallShape DEF Shape, Storing, Reading, Removing, Writing, Lookups
  <2> QED
    BY <1>1, <2>1, <2>2, <2>3, GoStep DEF Lookups, r
<1> QED
  BY <1>2, <1>3

LEMMA OpenEntrySafe == ASSUME SafeInv, NEW c \in Clients, OpenEntry(c) PROVE SafeInv'
<1> DEFINE r == me[c]
           d == Resolve(c, r.key)
<1>1. /\ r \in Client /\ Shape(r) /\ Linked(r) /\ r.pc = "open" /\ r.pc \in Reading
      /\ r.task \in Lookups \cup {"collide"} /\ r.key \in Keys /\ UNCHANGED <<disk, history, met>>
  <2>1. r \in Client /\ Shape(r) /\ Linked(r) /\ r.pc = "open" /\ UNCHANGED <<disk, history, met>>
    BY Here DEF OpenEntry, At
  <2>2. r.pc \in Reading /\ r.task \in Lookups \cup {"collide"}
    BY <2>1 DEF Shape, Reading
  <2> QED
    BY <2>1, <2>2, CallShape DEF Lookups
<1>2. CASE d = None
  <2>1. me' = [me EXCEPT ![c] = Unreadable(r)]
    BY <1>2 DEF OpenEntry, Become
  <2>2. Leaves(r, Unreadable(r), r.text) /\ Unreadable(r).temp = r.temp
    BY <1>1, UnreadableLeaves
  <2> QED
    BY <1>1, <2>1, <2>2, LeaveStep
<1>3. CASE d # None
  <2> DEFINE s == [r EXCEPT !.dir = d, !.pc = "meta"]
  <2>0. d = entry[r.key] /\ d \in Dirs
    BY <1>1, <1>3 DEF Resolve, SafeInv, TypeOK
  <2>1. /\ s \in Client /\ s.pc = "meta" /\ s.op = r.op /\ s.key = r.key /\ s.text = r.text
        /\ s.task = r.task /\ s.temp = r.temp /\ s.fd = r.fd /\ s.dir = d
    <3> HIDE DEF d
    <3> QED
      BY <1>1, <2>0, ClientFields, FieldValues, StepValues
  <2>2. me' = [me EXCEPT ![c] = s]
    BY <1>3 DEF OpenEntry
  <2>3. Sound(d, r.key) /\ \A b \in Clients : d # me[b].temp
    BY <1>1, <1>3, <2>0 DEF SafeInv, EntriesSound, Separate
  <2> HIDE DEF r, s, d
  <2>4. Shape(s)
    BY <1>1, <1>3, <2>1, CallShape DEF Shape, Storing, Reading, Removing, Writing, Lookups
  <2>5. Linked(s)
    BY <1>1, <2>1, <2>3 DEF Linked, Lookups
  <2> QED
    BY <1>1, <2>1, <2>2, <2>3, <2>4, <2>5, ReadStep DEF r
<1> QED
  BY <1>2, <1>3

LEMMA ReadMetadataSafe == ASSUME SafeInv, NEW c \in Clients, ReadMetadata(c) PROVE SafeInv'
<1> DEFINE r == me[c]
           sum == files[r.dir].meta
<1>1. /\ r \in Client /\ Shape(r) /\ Linked(r) /\ r.pc = "meta" /\ r.pc \in Reading
      /\ r.task \in Lookups \cup {"collide"} /\ r.key \in Keys /\ UNCHANGED <<disk, history, met>>
  <2>1. r \in Client /\ Shape(r) /\ Linked(r) /\ r.pc = "meta" /\ UNCHANGED <<disk, history, met>>
    BY Here DEF ReadMetadata, At
  <2>2. r.pc \in Reading /\ r.task \in Lookups \cup {"collide"}
    BY <2>1 DEF Shape, Reading
  <2> QED
    BY <2>1, <2>2, CallShape DEF Lookups
<1>2. CASE sum \notin Payloads
  <2>1. me' = [me EXCEPT ![c] = Unreadable(r)]
    BY <1>2 DEF ReadMetadata, Become
  <2>2. Leaves(r, Unreadable(r), r.text) /\ Unreadable(r).temp = r.temp
    BY <1>1, UnreadableLeaves
  <2> QED
    BY <1>1, <2>1, <2>2, LeaveStep
<1>3. CASE sum \in Payloads
  <2> DEFINE s == [r EXCEPT !.sum = sum, !.pc = "payload"]
  <2>1. /\ s \in Client /\ s.pc = "payload" /\ s.op = r.op /\ s.key = r.key /\ s.text = r.text
        /\ s.task = r.task /\ s.temp = r.temp /\ s.fd = r.fd /\ s.dir = r.dir /\ s.sum = sum
    <3> HIDE DEF sum
    <3> QED
      BY <1>1, <1>3, ClientFields, FieldValues, StepValues
  <2>2. me' = [me EXCEPT ![c] = s]
    BY <1>3 DEF ReadMetadata
  <2>3. /\ <<r.key, sum>> \in produced /\ sum # None
        /\ \A b \in Clients : r.dir # me[b].temp
    <3>1. Sound(r.dir, r.key) /\ sum \notin {NoFile, Torn, None}
      BY <1>1, <1>3, NamesAssumption DEF Linked
    <3> QED
      BY <1>1, <3>1 DEF Sound, SafeInv, Separate, Opened
  <2> HIDE DEF s, sum
  <2>4. Shape(s)
    BY <1>1, <2>1, <2>3, CallShape DEF Shape, Storing, Reading, Removing, Writing, Lookups
  <2>5. Linked(s)
    BY <1>1, <2>1, <2>3 DEF Linked, Lookups
  <2> QED
    BY <1>1, <2>1, <2>2, <2>3, <2>4, <2>5, ReadStep
<1> QED
  BY <1>2, <1>3

LEMMA ReadPayloadSafe == ASSUME SafeInv, NEW c \in Clients, ReadPayload(c) PROVE SafeInv'
<1> DEFINE r == me[c]
<1>1. /\ r \in Client /\ Shape(r) /\ Linked(r) /\ r.pc = "payload" /\ r.pc \in Reading
      /\ r.sum \in Payloads /\ UNCHANGED <<disk, history, met>>
  <2>1. r \in Client /\ Shape(r) /\ Linked(r) /\ r.pc = "payload" /\ UNCHANGED <<disk, history, met>>
    BY Here DEF ReadPayload, At
  <2>2. r.pc \in Reading /\ r.sum # None
    BY <2>1 DEF Shape, Reading
  <2>3. r.sum \in Told
    BY <2>1, ClientFields
  <2> QED
    BY <2>1, <2>2, <2>3 DEF Told
<1>2. CASE files[r.dir].payload = r.sum
  <2>1. me' = [me EXCEPT ![c] = Found(r, r.sum)]
    BY <1>2 DEF ReadPayload, Become
  <2>2. Leaves(r, Found(r, r.sum), r.sum) /\ <<r.key, r.sum>> \in produced
    BY <1>1, FoundLeaves DEF Linked
  <2>3. Found(r, r.sum).temp = r.temp
    <3>1. CASE r.task = "collide"
      <4>1. Found(r, r.sum) = Cleanup(r, "exists") /\ r.temp # None
        BY <1>1, <3>1, FoundLeaves
      <4> QED
        BY <1>1, <3>1, <4>1, CleanupLeaves
    <3>2. CASE r.task # "collide"
      <4>1. Found(r, r.sum).temp = None
        BY <1>1, <3>2, FoundLeaves
      <4>2. r.temp = None
        BY <1>1, <3>2 DEF Shape, Reading, Writing, Removing
      <4> QED
        BY <4>1, <4>2
    <3> QED
      BY <3>1, <3>2
  <2> QED
    BY <1>1, <2>1, <2>2, <2>3, LeaveStep
<1>3. CASE files[r.dir].payload # r.sum
  <2>1. me' = [me EXCEPT ![c] = Unreadable(r)]
    BY <1>3 DEF ReadPayload, Become
  <2>2. Leaves(r, Unreadable(r), r.text) /\ Unreadable(r).temp = r.temp
    BY <1>1, UnreadableLeaves
  <2> QED
    BY <1>1, <2>1, <2>2, LeaveStep
<1> QED
  BY <1>2, <1>3

-----------------------------------------------------------------------------
(***************************************************************************)
(* remove_tree, the removal of an empty shard.                             *)
(***************************************************************************)
\* Where a removal stands: a store that cleans up removes its own temporary directory.
LEMMA RemovalShape ==
    ASSUME SafeInv, NEW c \in Clients, me[c].pc \in Removing
    PROVE  /\ me[c].task \in Lookups \cup {"discard", "cleanup", "purge"}
           /\ me[c].task # "cleanup" => me[c].temp = None
           /\ me[c].task = "cleanup" =>
                 /\ me[c].temp \in Dirs /\ me[c].at = me[c].temp /\ me[c].at \notin Keys
                 /\ Resolve(c, me[c].at) \in {None, me[c].temp}
                 /\ Resolve(c, me[c].at) = None => me[c].temp \notin temps
           /\ me[c].task \in Lookups \cup {"discard"} => me[c].at = me[c].key /\ me[c].key \in Keys
           /\ Resolve(c, me[c].at) \in Dirs \cup {None}
<1> DEFINE r == me[c]
<1>1. r \in Client /\ Shape(r) /\ Linked(r) /\ r.temp \in Dirs \cup {None} /\ r.pc # "idle"
  BY Here, TempType DEF Removing
<1>2. /\ r.task \in Lookups \cup {"discard", "cleanup", "purge"}
      /\ r.task # "cleanup" => r.temp = None
      /\ r.task = "cleanup" => r.temp # None /\ r.at = r.temp
      /\ r.task \in Lookups \cup {"discard"} => r.at = r.key
  BY <1>1 DEF Shape, Removing, Reading, Writing, Lookups
<1>3. r.task \in Lookups \cup {"discard"} => r.key \in Keys
  BY <1>1, CallShape DEF Lookups
<1>4. r.task = "cleanup" => /\ r.temp \in Dirs /\ r.at \notin Keys
                            /\ Resolve(c, r.at) \in {None, r.temp}
                            /\ Resolve(c, r.at) = None => r.temp \notin temps
  BY <1>1, <1>2, NamesAssumption DEF Resolve, Linked
<1>5. Resolve(c, r.at) \in Dirs \cup {None}
  BY DEF Resolve, SafeInv, TypeOK
<1> QED
  BY <1>2, <1>3, <1>4, <1>5

LEMMA RemoveOpenSafe == ASSUME SafeInv, NEW c \in Clients, RemoveOpen(c) PROVE SafeInv'
<1> DEFINE r == me[c]
           d == Resolve(c, r.at)
<1>1. /\ r \in Client /\ Shape(r) /\ Linked(r) /\ r.pc = "rmOpen" /\ r.pc \in Removing
      /\ UNCHANGED <<disk, history, met>>
  BY Here DEF RemoveOpen, At, Removing
<1>2. CASE d = None
  <2>1. me' = [me EXCEPT ![c] = VanishedTree(r)]
    BY <1>2 DEF RemoveOpen, Become
  <2>2. Leaves(r, VanishedTree(r), r.text) /\ VanishedTree(r).temp = None
    BY <1>1, VanishedLeaves
  <2>3. r.temp = None \/ r.temp \notin temps
    BY <1>1, <1>2, RemovalShape
  <2> QED
    BY <1>1, <2>1, <2>2, <2>3, LeaveStep
<1>3. CASE d # None
  <2> DEFINE s == [r EXCEPT !.dir = d, !.kids = Children(d), !.pc = "rmKids"]
  <2>0. /\ d \in Dirs /\ Children(d) \in Kids
        /\ r.task = "cleanup" => d = r.temp
        /\ r.task \in Lookups \cup {"discard"} => d = entry[r.key] /\ r.key \in Keys
    BY <1>1, <1>3, RemovalShape DEF Resolve, Children, Kids
  <2>1. /\ s \in Client /\ s.pc = "rmKids" /\ s.op = r.op /\ s.key = r.key /\ s.text = r.text
        /\ s.task = r.task /\ s.temp = r.temp /\ s.fd = r.fd /\ s.dir = d /\ s.at = r.at
        /\ s.kids = Children(d)
    <3> HIDE DEF d
    <3> QED
      BY <1>1, <2>0, ClientFields, FieldValues, StepValues
  <2>2. me' = [me EXCEPT ![c] = s]
    BY <1>3 DEF RemoveOpen
  <2>3. r.task \in Lookups \cup {"discard"} => \A b \in Clients : d # me[b].temp
    BY <1>3, <2>0 DEF SafeInv, Separate
  <2> HIDE DEF s, d
  <2>4. Shape(s)
    <3>1. d # None
      BY <1>3
    <3> QED
      BY <1>1, <2>0, <2>1, <3>1 DEF Shape, Storing, Reading, Removing, Writing
  <2>5. Linked(s)
    BY <1>1, <2>0, <2>1 DEF Linked
  <2>6. Opened(s) => \A b \in Clients : s.dir # me[b].temp
    BY <2>1, <2>3 DEF Opened
  <2> QED
    BY <1>1, <2>1, <2>2, <2>4, <2>5, <2>6, ReadStep
<1> QED
  BY <1>2, <1>3

LEMMA RemoveChildSafe == ASSUME SafeInv, NEW c \in Clients, RemoveChild(c) PROVE SafeInv'
<1> DEFINE r == me[c]
<1>1. /\ r \in Client /\ Shape(r) /\ Linked(r) /\ r.pc = "rmKids" /\ r.pc \in Removing
      /\ r.dir \in Dirs /\ r.dir # None /\ r.kids \in Kids
      /\ UNCHANGED <<marker, shard, entry, temps, history, met>>
  <2>1. /\ r \in Client /\ Shape(r) /\ Linked(r) /\ r.pc = "rmKids" /\ r.pc \in Removing
        /\ UNCHANGED <<marker, shard, entry, temps, history, met>>
    BY Here DEF RemoveChild, At, Removing
  <2> QED
    BY <2>1, TempType, ClientFields DEF Shape
<1>2. /\ r.task \in Lookups \cup {"discard", "cleanup", "purge"}
      /\ r.task # "cleanup" => r.temp = None
      /\ r.task = "cleanup" => r.dir = r.temp /\ r.temp # None
      /\ r.task = "cleanup" /\ NoPurge => r.kids = Children(r.temp)
  BY <1>1, RemovalShape DEF Shape, Linked
<1>3. PICK f \in r.kids :
         IF files[r.dir][f] = NoFile THEN Become(c, VanishedTree(r)) /\ UNCHANGED files
         ELSE /\ files' = [files EXCEPT ![r.dir][f] = NoFile]
              /\ me' = [me EXCEPT ![c].kids = @ \ {f}]
  BY DEF RemoveChild
<1>4. CASE files[r.dir][f] = NoFile
  <2>1. me' = [me EXCEPT ![c] = VanishedTree(r)] /\ UNCHANGED <<disk, history, met>>
    BY <1>1, <1>3, <1>4 DEF Become, disk
  <2>2. Leaves(r, VanishedTree(r), r.text) /\ VanishedTree(r).temp = None
    BY <1>1, VanishedLeaves
  <2>3. r.temp = None \/ ~NoPurge
    BY <1>2, <1>4 DEF Children
  <2> QED
    BY <2>1, <2>2, <2>3, LeaveStep
<1>5. CASE files[r.dir][f] # NoFile
  <2>0. PICK s : s = [r EXCEPT !.kids = r.kids \ {f}]
    OBVIOUS
  <2>1. /\ s \in Client /\ s.pc = "rmKids" /\ s.op = r.op /\ s.key = r.key /\ s.text = r.text
        /\ s.task = r.task /\ s.temp = r.temp /\ s.fd = r.fd /\ s.dir = r.dir /\ s.at = r.at
        /\ s.kids = r.kids \ {f}
    <3>1. r.kids \ {f} \in Kids
      BY <1>1 DEF Kids
    <3> QED
      BY <1>1, <2>0, <3>1, ClientFields
  <2>2. me' = [me EXCEPT ![c] = s] /\ files' = [files EXCEPT ![r.dir][f] = NoFile]
    BY <1>3, <1>5, <2>0
  <2>3. f \in {"meta", "payload"}
    BY <1>1 DEF Kids
  <2>4. files \in [Dirs -> Files] /\ me \in [Clients -> Client]
    BY DEF SafeInv, TypeOK
  <2>5. /\ files' \in [Dirs -> Files]
        /\ \A d \in Dirs : d # r.dir => files'[d] = files[d]
        /\ files'[r.dir][f] = NoFile
        /\ \A g \in {"meta", "payload"} : g # f => files'[r.dir][g] = files[r.dir][g]
    BY <1>1, <2>2, <2>3, <2>4 DEF Files
  <2>6. \A d \in Dirs : Worn(d)
    BY <2>3, <2>5 DEF Worn
  <2>7. Shape(s)
    BY <1>1, <2>1 DEF Shape, Storing, Reading, Removing, Writing
  <2>8. Turns(c, s)
    BY <2>1, <2>2, <2>4, <2>7, Here DEF Turns, Alike
  <2>9. /\ marker' = marker /\ shard' = shard /\ entry' = entry /\ temps' = temps
        /\ mem' = mem /\ produced' = produced /\ answers' = answers /\ met' = met
    BY <1>1 DEF history
  <2>10. (NoPurge' <=> NoPurge) /\ (r.task = "purge" => ~NoPurge)
    BY <1>1, <2>9 DEF NoPurge, Linked
  <2>11. Opened(s) <=> r.task \in Lookups \cup {"discard"}
    BY <2>1 DEF Opened
  <2>12. ASSUME NEW b \in Clients \ {c}, me[b].temp # None, NoPurge
         PROVE  files'[me[b].temp] = files[me[b].temp]
    <3>1. me[b].temp # r.dir
      <4>1. CASE r.task = "cleanup"
        BY <1>2, <2>12, <4>1 DEF SafeInv, Separate
      <4>2. CASE r.task \in Lookups \cup {"discard"}
        BY <1>1, <4>2 DEF SafeInv, Separate, Opened
      <4> QED
        BY <1>2, <2>10, <2>12, <4>1, <4>2
    <3> QED
      BY <2>5, <2>12, <3>1, TempType
  <2>13. Opened(s) => s.dir # s.temp /\ \A b \in Clients : s.dir # me[b].temp
    <3>1. Opened(s) => Opened(r)
      BY <1>1, <2>11 DEF Opened
    <3> QED
      BY <2>1, <3>1 DEF SafeInv, Separate
  <2>14. NoPurge' => \A d \in temps' : d = s.temp \/ (d \in temps /\ d # me[c].temp)
    BY <2>1, <2>9
  <2>15. Fits(c, s)
    BY <2>1, <2>6, <2>9, <2>10, <2>12, <2>13, <2>14 DEF Fits
  <2>16. Linked(s)'
    <3>1. s.temp # None => Sound(s.temp, s.key)'
      <4>1. s.temp # None => Sound(s.temp, s.key) /\ s.temp \in Dirs
        BY <1>1, <2>1, TempType DEF Linked
      <4> QED
        BY <2>6, <2>9, <4>1, WornSound
    <3>2. NoPurge' /\ s.task = "cleanup" => s.kids = Children(s.temp)'
      <4> SUFFICES ASSUME NoPurge, s.task = "cleanup" PROVE s.kids = Children(s.temp)'
        BY <2>10
      <4>1. s.kids = Children(r.temp) \ {f} /\ s.temp = r.temp /\ r.temp = r.dir
        BY <1>2, <2>1
      <4>2. Children(s.temp)' = {g \in {"meta", "payload"} : files'[s.temp][g] # NoFile}
        BY DEF Children
      <4> QED
        BY <2>3, <2>5, <4>1, <4>2 DEF Children
    <3> QED
      BY <1>1, <2>1, <2>9, <3>1, <3>2 DEF Linked
  <2>17. Linked(me[c])'
    BY <2>8, <2>16 DEF Linked, Turns
  <2>18. /\ Typed' /\ IsFiniteSet(met') /\ mem' \in [Clients -> Seq(Keys \X Texts)]
         /\ \A b \in Clients : Dictionary(mem'[b]) /\ Len(mem'[b]) <= MemCap
         /\ AnswersProduced'
    BY <2>5, <2>9 DEF SafeInv, TypeOK, Typed, AnswersProduced
  <2> QED
    BY <2>8, <2>15, <2>17, <2>18, SafeStep
<1> QED
  BY <1>4, <1>5

\* A step that takes names away, or the shard, and leaves files, caches and history alone.
LEMMA TakeStep ==
    ASSUME SafeInv, NEW c \in Clients, NEW s, Leaves(me[c], s, me[c].text), s.temp = None,
           Turns(c, s), UNCHANGED <<marker, files, history, met>>, shard' \in BOOLEAN,
           entry' \in [Keys -> Dirs \cup {None}],
           \A k \in Keys : entry'[k] \in {None, entry[k]},
           temps' \subseteq temps, me[c].temp = None \/ me[c].temp \notin temps'
    PROVE  SafeInv'
<1>1. /\ marker' = marker /\ files' = files
      /\ mem' = mem /\ produced' = produced /\ answers' = answers /\ met' = met
  BY DEF history
<1>2. Linked(s) /\ ~Opened(s) /\ Linked(me[c]) /\ me[c].temp \in Dirs \cup {None}
  BY LeavesLinked, Here, TempType
<1>3. Linked(s)'
  BY <1>1, <1>2 DEF Linked, Leaves, Sound
<1>4. Linked(me[c])'
  BY <1>3 DEF Linked, Turns
<1>5. Fits(c, s)
  <2>1. \A d : Worn(d)
    BY <1>1 DEF Worn
  <2>2. temps \subseteq Dirs /\ None \notin Dirs
    BY NamesAssumption DEF SafeInv, TypeOK
  <2>3. \A d \in temps' : d \in temps /\ d # me[c].temp
    BY <2>2
  <2> QED
    BY <1>1, <1>2, <2>1, <2>3 DEF Fits
<1>6. /\ Typed' /\ IsFiniteSet(met') /\ mem' \in [Clients -> Seq(Keys \X Texts)]
      /\ \A b \in Clients : Dictionary(mem'[b]) /\ Len(mem'[b]) <= MemCap
      /\ AnswersProduced'
  BY <1>1 DEF SafeInv, TypeOK, Typed, AnswersProduced
<1> QED
  BY <1>4, <1>5, <1>6, SafeStep

LEMMA RemoveDirectorySafe == ASSUME SafeInv, NEW c \in Clients, RemoveDirectory(c) PROVE SafeInv'
<1> DEFINE r == me[c]
           d == Resolve(c, r.at)
<1>1. /\ r \in Client /\ Shape(r) /\ Linked(r) /\ r.pc = "rmKids" /\ r.pc \in Removing
      /\ r.kids = {} /\ UNCHANGED <<marker, shard, files, history, met>>
  BY Here DEF RemoveDirectory, At, Removing
<1>2. /\ r.task # "cleanup" => r.temp = None
      /\ r.task = "cleanup" => r.at = r.temp /\ d \in {None, r.temp} /\ (d = None => r.temp \notin temps)
      /\ r.task = "cleanup" /\ NoPurge => Children(r.temp) = {}
  BY <1>1, RemovalShape DEF Linked
<1>3. CASE d = None
  <2>1. me' = [me EXCEPT ![c] = VanishedTree(r)] /\ UNCHANGED <<disk, history, met>>
    BY <1>1, <1>3 DEF RemoveDirectory, Become, disk
  <2>2. Leaves(r, VanishedTree(r), r.text) /\ VanishedTree(r).temp = None
    BY <1>1, VanishedLeaves
  <2> QED
    BY <1>2, <1>3, <2>1, <2>2, LeaveStep
<1>4. CASE d # None /\ Children(d) # {}
  <2>1. me' = [me EXCEPT ![c] = Idle] /\ UNCHANGED <<disk, history, met>>
    BY <1>1, <1>4 DEF RemoveDirectory, Fail, Become, disk
  <2>2. r.temp = None \/ ~NoPurge
    BY <1>2, <1>4
  <2> QED
    BY <2>1, <2>2, FailStep
<1>5. CASE d # None /\ Children(d) = {}
  <2>1. /\ me' = [me EXCEPT ![c] = RemovedTree(r)]
        /\ entry' = [k \in Keys |-> IF k = r.at THEN None ELSE entry[k]]
        /\ temps' = temps \ {r.at}
    BY <1>1, <1>5 DEF RemoveDirectory, Become
  <2>2. Leaves(r, RemovedTree(r), r.text) /\ RemovedTree(r).temp = None
    BY <1>1, RemovedLeaves
  <2>3. Turns(c, RemovedTree(r))
    <3>1. me \in [Clients -> Client] /\ \A b \in Clients : Shape(me[b])
      BY Here DEF SafeInv, TypeOK
    <3>2. RemovedTree(r) \in Client /\ Shape(RemovedTree(r))
      BY <2>2 DEF Leaves
    <3> QED
      BY <2>1, <3>1, <3>2 DEF Turns, Alike
  <2>4. /\ entry' \in [Keys -> Dirs \cup {None}] /\ shard' \in BOOLEAN
        /\ \A k \in Keys : entry'[k] \in {None, entry[k]}
    BY <1>1, <2>1 DEF SafeInv, TypeOK
  <2>5. temps' \subseteq temps /\ (r.temp = None \/ r.temp \notin temps')
    BY <1>2, <2>1
  <2>6. UNCHANGED <<marker, files, history, met>>
    BY <1>1
  <2> HIDE DEF r, d
  <2>7. /\ Leaves(me[c], RemovedTree(r), me[c].text)
        /\ me[c].temp = None \/ me[c].temp \notin temps'
    BY <2>2, <2>5 DEF r
  <2> QED
    BY <2>2, <2>3, <2>4, <2>5, <2>6, <2>7, TakeStep
<1> QED
  BY <1>3, <1>4, <1>5

\* The shard goes: the handles on it see an empty directory.
LEMMA DropStep ==
    ASSUME SafeInv, NEW c \in Clients, NEW s, Leaves(me[c], s, me[c].text), s.temp = None,
           Names = {}, DropShard(c, s), UNCHANGED <<marker, entry, temps, files, history, met>>
    PROVE  SafeInv'
<1>1. /\ temps = {} /\ shard' = FALSE /\ s \in Client /\ Shape(s)
      /\ me' = [b \in Clients |-> IF b = c THEN s
                                  ELSE IF me[b].fd = "live" THEN [me[b] EXCEPT !.fd = "dead"]
                                  ELSE me[b]]
  BY DEF Names, DropShard, Leaves
<1>2. ASSUME NEW b \in Clients \ {c}
      PROVE  me'[b] \in Client /\ Shape(me'[b]) /\ Alike(me'[b], me[b])
  <2>1. me[b] \in Client /\ Shape(me[b])
    BY Here
  <2>2. CASE me[b].fd = "live"
    <3> DEFINE r == me[b]
               q == [r EXCEPT !.fd = "dead"]
    <3>1. /\ q \in Client
          /\ q.pc = r.pc /\ q.op = r.op /\ q.key = r.key /\ q.text = r.text /\ q.task = r.task
          /\ q.dir = r.dir /\ q.sum = r.sum /\ q.at = r.at /\ q.kids = r.kids /\ q.temp = r.temp
      BY <2>1, ClientFields, FieldValues
    <3>2. me'[b] = q
      BY <1>1, <2>2
    <3>3. r.pc # "idle"
      BY <2>1, <2>2 DEF Shape, Idle
    <3> HIDE DEF q
    <3>4. Shape(q)
      BY <2>1, <3>1, <3>3 DEF Shape
    <3> QED
      BY <3>1, <3>2, <3>4 DEF Alike
  <2>3. CASE me[b].fd # "live"
    <3>1. me'[b] = me[b]
      BY <1>1, <2>3
    <3> QED
      BY <2>1, <3>1 DEF Alike
  <2> QED
    BY <2>2, <2>3
<1>3. Turns(c, s)
  <2>1. me'[c] = s /\ temps' = {}
    BY <1>1
  <2>2. me' \in [Clients -> Client]
    <3>1. \A b \in Clients : me'[b] \in Client
      BY <1>1, <1>2, <2>1
    <3> QED
      BY <1>1, <3>1
  <2> QED
    BY <1>1, <1>2, <2>1, <2>2 DEF Turns
<1>4. /\ UNCHANGED <<marker, files, history, met>> /\ shard' \in BOOLEAN
      /\ entry' \in [Keys -> Dirs \cup {None}] /\ \A k \in Keys : entry'[k] \in {None, entry[k]}
      /\ temps' \subseteq temps /\ me[c].temp \notin temps'
  BY <1>1 DEF SafeInv, TypeOK
<1> QED
  BY <1>3, <1>4, TakeStep

LEMMA RemoveEmptyShardSafe == ASSUME SafeInv, NEW c \in Clients, RemoveEmptyShard(c) PROVE SafeInv'
<1> DEFINE r == me[c]
<1>1. /\ r \in Client /\ Shape(r) /\ r.pc = "rmShard" /\ r.temp = None
      /\ r.task \in Lookups \cup {"discard"}
      /\ UNCHANGED <<marker, entry, temps, files, history, met>>
  <2>1. /\ r \in Client /\ Shape(r) /\ r.pc = "rmShard"
        /\ UNCHANGED <<marker, entry, temps, files, history, met>>
    BY Here DEF RemoveEmptyShard, At
  <2> QED
    BY <2>1 DEF Shape, Reading, Writing, Removing
<1>2. Leaves(r, Missed(r), r.text) /\ Missed(r).temp = None
  BY <1>1, MissedLeaves
<1>3. CASE shard /\ Names = {}
  <2>1. DropShard(c, Missed(r))
    BY <1>3 DEF RemoveEmptyShard
  <2> QED
    BY <1>1, <1>2, <1>3, <2>1, DropStep
<1>4. CASE ~(shard /\ Names = {})
  <2>1. me' = [me EXCEPT ![c] = Missed(r)] /\ UNCHANGED <<disk, history, met>>
    BY <1>1, <1>4 DEF RemoveEmptyShard, Become, disk
  <2> QED
    BY <1>1, <1>2, <2>1, LeaveStep
<1> QED
  BY <1>3, <1>4

-----------------------------------------------------------------------------
(***************************************************************************)
(* purge.                                                                  *)
(***************************************************************************)
LEMMA PurgeShape ==
    ASSUME SafeInv, NEW c \in Clients, me[c].pc \in {"purge", "purgeList", "purgeNext"}
    PROVE  /\ me[c] \in Client /\ Shape(me[c]) /\ Linked(me[c]) /\ me[c].temp = None
           /\ me[c].task = "purge" /\ me[c].op = "purge" /\ "purge" \in met
BY Here DEF Shape, Linked, Reading, Writing, Removing, Lookups

LEMMA PurgeRootSafe == ASSUME SafeInv, NEW c \in Clients, PurgeRoot(c) PROVE SafeInv'
<1> DEFINE r == me[c]
<1>1. /\ r \in Client /\ Shape(r) /\ r.temp = None /\ r.pc = "purge" /\ r.task = "purge"
      /\ r.op = "purge" /\ "purge" \in met /\ UNCHANGED <<disk, history, met>>
  BY PurgeShape DEF PurgeRoot, At
<1>2. CASE marker = "ok" /\ shard
  <2> DEFINE s == [r EXCEPT !.pc = "purgeList"]
  <2>1. /\ s \in Client /\ s.pc = "purgeList" /\ s.op = r.op /\ s.key = r.key /\ s.text = r.text
        /\ s.task = r.task /\ s.temp = r.temp /\ s.fd = r.fd
    BY <1>1, ClientFields, StepValues
  <2>2. me' = [me EXCEPT ![c] = s]
    BY <1>2 DEF PurgeRoot, Go
  <2> HIDE DEF s
  <2>3. Shape(s)
    BY <1>1, <2>1 DEF Shape, Storing, Reading, Removing, Writing
  <2> QED
    BY <1>1, <2>1, <2>2, <2>3, GoStep
<1>3. CASE ~(marker = "ok" /\ shard)
  <2>1. me' = [me EXCEPT ![c] = Idle]
    BY <1>3 DEF PurgeRoot, Become
  <2> QED
    BY <1>1, <2>1, FailStep
<1> QED
  BY <1>2, <1>3

LEMMA PurgeListSafe == ASSUME SafeInv, NEW c \in Clients, PurgeList(c) PROVE SafeInv'
<1> DEFINE r == me[c]
<1>1. /\ r \in Client /\ Shape(r) /\ r.temp = None /\ r.pc = "purgeList" /\ r.task = "purge"
      /\ r.op = "purge" /\ "purge" \in met /\ UNCHANGED <<disk, history, met>>
  BY PurgeShape DEF PurgeList, At
<1>2. CASE shard
  <2> DEFINE n == Names
             s == [r EXCEPT !.fd = "live", !.todo = n, !.pc = "purgeNext"]
  <2>0. n \in Lists
    BY DEF Names, Lists, SafeInv, TypeOK
  <2>1. me' = [me EXCEPT ![c] = s]
    BY <1>2 DEF PurgeList
  <2> HIDE DEF n
  <2>2. /\ s \in Client /\ s.pc = "purgeNext" /\ s.op = r.op /\ s.key = r.key /\ s.text = r.text
        /\ s.task = r.task /\ s.temp = r.temp /\ s.fd = "live"
    BY <1>1, <2>0, ClientFields, FieldValues, StepValues
  <2> HIDE DEF s
  <2>3. Shape(s)
    BY <1>1, <2>2 DEF Shape, Storing, Reading, Removing, Writing
  <2> QED
    BY <1>1, <2>1, <2>2, <2>3, GoStep
<1>3. CASE ~shard
  <2>1. me' = [me EXCEPT ![c] = Idle]
    BY <1>3 DEF PurgeList, Fail, Become
  <2> QED
    BY <1>1, <2>1, FailStep
<1> QED
  BY <1>2, <1>3

LEMMA PurgeEntrySafe == ASSUME SafeInv, NEW c \in Clients, PurgeEntry(c) PROVE SafeInv'
<1> DEFINE r == me[c]
<1>1. /\ r \in Client /\ Shape(r) /\ r.temp = None /\ r.pc = "purgeNext" /\ r.task = "purge"
      /\ r.op = "purge" /\ "purge" \in met /\ UNCHANGED <<disk, history, met>>
  BY PurgeShape DEF PurgeEntry, At
<1>2. PICK x \in r.todo : me' = [me EXCEPT ![c] = [r EXCEPT !.todo = r.todo \ {x}, !.at = x,
                                                            !.pc = "rmOpen"]]
  BY DEF PurgeEntry, Become
<1> DEFINE rest == r.todo \ {x}
           s == [r EXCEPT !.todo = rest, !.at = x, !.pc = "rmOpen"]
<1>3. x \in Tokens /\ rest \in Lists
  BY <1>1, ClientFields DEF Lists, Tokens
<1>4. me' = [me EXCEPT ![c] = s]
  BY <1>2
<1> HIDE DEF rest
<1>5. /\ s \in Client /\ s.pc = "rmOpen" /\ s.op = r.op /\ s.key = r.key /\ s.text = r.text
      /\ s.task = r.task /\ s.temp = r.temp /\ s.fd = r.fd
  BY <1>1, <1>3, ClientFields, FieldValues, StepValues
<1> HIDE DEF s
<1>6. Shape(s)
  BY <1>1, <1>5 DEF Shape, Storing, Reading, Removing, Writing, Lookups
<1> QED
  BY <1>1, <1>4, <1>5, <1>6, GoStep

LEMMA PurgeShardSafe == ASSUME SafeInv, NEW c \in Clients, PurgeShard(c) PROVE SafeInv'
<1>1. /\ me[c].temp = None /\ UNCHANGED <<marker, entry, temps, files, history, met>>
  BY PurgeShape DEF PurgeShard, At
<1>2. CASE shard /\ Names = {}
  <2>1. DropShard(c, Idle) /\ Leaves(me[c], Idle, me[c].text) /\ Idle.temp = None
    BY <1>2, IdleLeaves DEF PurgeShard, Idle
  <2> QED
    BY <1>1, <1>2, <2>1, DropStep
<1>3. CASE ~(shard /\ Names = {})
  <2>1. me' = [me EXCEPT ![c] = Idle] /\ UNCHANGED <<disk, history, met>>
    BY <1>1, <1>3 DEF PurgeShard, Fail, Become, disk
  <2> QED
    BY <1>1, <2>1, FailStep
<1> QED
  BY <1>2, <1>3

-----------------------------------------------------------------------------
(***************************************************************************)
(* store.                                                                  *)
(***************************************************************************)
\* A step that changes nothing shared but the marker or the existence of the shard.
LEMMA MarkStep ==
    ASSUME SafeInv, NEW c \in Clients, NEW s \in Client, me' = [me EXCEPT ![c] = s],
           UNCHANGED <<entry, temps, files, history, met>>,
           marker' \in {"absent", "partial", "ok"}, shard' \in BOOLEAN, Shape(s),
           s.pc \notin {"meta", "payload", "rmKids"}, s.task # "purge",
           s.key = me[c].key, s.text = me[c].text, s.temp = me[c].temp, s.fd = me[c].fd
    PROVE  SafeInv'
<1>0. /\ entry' = entry /\ temps' = temps /\ files' = files
      /\ mem' = mem /\ produced' = produced /\ answers' = answers /\ met' = met
  BY DEF history
<1>1. me \in [Clients -> Client] /\ \A b \in Clients : Shape(me[b]) /\ Linked(me[b])
  BY Here DEF SafeInv, TypeOK
<1>2. Turns(c, s)
  BY <1>1 DEF Turns, Alike
<1>3. Linked(s)
  BY <1>1 DEF Linked
<1>4. Linked(me[c])'
  BY <1>0, <1>1, <1>3 DEF Linked, Sound, NoPurge, Children
<1>5. Fits(c, s)
  <2>1. \A d : Worn(d)
    BY <1>0 DEF Worn
  <2>2. ~Opened(s)
    BY DEF Opened
  <2>3. NoPurge' => \A d \in temps' : d = s.temp \/ (d \in temps /\ d # me[c].temp)
    BY <1>0
  <2> QED
    BY <1>0, <2>1, <2>2, <2>3 DEF Fits
<1>6. /\ Typed' /\ IsFiniteSet(met') /\ mem' \in [Clients -> Seq(Keys \X Texts)]
      /\ \A b \in Clients : Dictionary(mem'[b]) /\ Len(mem'[b]) <= MemCap
      /\ AnswersProduced'
  BY <1>0 DEF SafeInv, TypeOK, Typed, AnswersProduced
<1> QED
  BY <1>2, <1>4, <1>5, <1>6, SafeStep

\* A store in progress, and the temporary directory it has from its creation on.
LEMMA StoreShape ==
    ASSUME SafeInv, NEW c \in Clients, me[c].pc \in Storing
    PROVE  /\ me[c] \in Client /\ Shape(me[c]) /\ Linked(me[c])
           /\ me[c].task = "pre" /\ me[c].pc # "idle"
           /\ me[c].op \in {"generate", "put"} /\ me[c].key \in Keys
           /\ me[c].text \in Payloads /\ me[c].text # None
           /\ me[c].op = "generate" => me[c].text \in Texts
           /\ me[c].op = "put" => me[c].text = Junk
           /\ <<me[c].key, me[c].text>> \in produced
           /\ me[c].pc \in Writing => me[c].temp \in Dirs
           /\ me[c].pc \notin Writing => me[c].temp = None
<1> DEFINE r == me[c]
<1>1. r \in Client /\ Shape(r) /\ Linked(r) /\ r.pc # "idle"
  BY Here DEF Storing
<1>2. r.task = "pre"
  BY <1>1 DEF Shape
<1>3. /\ r.op \in {"generate", "put"} /\ r.key \in Keys
      /\ r.op = "generate" => r.text \in Texts
      /\ r.op = "put" => r.text = Junk
  BY <1>1, <1>2, CallShape
<1>4. r.text \in Payloads /\ r.text # None
  BY <1>3, NamesAssumption DEF Payloads
<1>5. r.pc \in Writing => r.temp \in Dirs
  BY <1>1, TempType DEF Shape
<1>6. r.pc \notin Writing => r.temp = None
  BY <1>1, <1>2 DEF Shape, Storing, Reading, Removing
<1> QED
  BY <1>1, <1>2, <1>3, <1>4, <1>5, <1>6 DEF Linked

\* Going on from one step of a store to the next.
LEMMA NextShape ==
    ASSUME SafeInv, NEW c \in Clients, me[c].pc \in Storing, NEW l \in Storing,
           \/ l \in Writing /\ me[c].pc \in Writing
           \/ l \notin Writing /\ me[c].pc \notin Writing
    PROVE  LET s == [me[c] EXCEPT !.pc = l]
           IN  /\ s \in Client /\ Shape(s) /\ s.pc = l /\ s.fd = me[c].fd /\ s.op = me[c].op
               /\ s.key = me[c].key /\ s.text = me[c].text /\ s.task = "pre" /\ s.temp = me[c].temp
<1> DEFINE r == me[c]
           s == [r EXCEPT !.pc = l]
<1>1. /\ r \in Client /\ r.task = "pre" /\ r.op \in {"generate", "put"} /\ r.key \in Keys
      /\ r.op = "generate" => r.text \in Texts
      /\ r.op = "put" => r.text = Junk
      /\ r.pc \in Writing => r.temp \in Dirs
      /\ r.pc \notin Writing => r.temp = None
  BY StoreShape
<1>2. l \in Steps
  BY DEF Storing, Steps
<1>3. /\ s \in Client /\ s.pc = l /\ s.fd = r.fd /\ s.op = r.op
      /\ s.key = r.key /\ s.text = r.text /\ s.task = "pre" /\ s.temp = r.temp
  BY <1>1, <1>2, ClientFields
<1> HIDE DEF s
<1>4. l \in Writing <=> s.temp # None
  BY <1>1, <1>3, NamesAssumption
<1>5. Shape(s)
  BY <1>1, <1>3, <1>4 DEF Shape, Storing, Reading, Removing, Lookups
<1> QED
  BY <1>3, <1>5 DEF s

LEMMA EnsureOwnedRootSafe == ASSUME SafeInv, NEW c \in Clients, EnsureOwnedRoot(c) PROVE SafeInv'
<1> DEFINE r == me[c]
<1>1. /\ r.pc = "own" /\ r.pc \in Storing /\ r.pc \notin Writing /\ UNCHANGED <<disk, history, met>>
  BY DEF EnsureOwnedRoot, At, Storing, Writing
<1>2. r \in Client /\ r.temp = None
  BY <1>1, StoreShape
<1>3. ASSUME NEW l \in {"mkShard", "mkMarker"}, me' = [me EXCEPT ![c] = [r EXCEPT !.pc = l]]
      PROVE  SafeInv'
  <2> DEFINE s == [r EXCEPT !.pc = l]
  <2>1. /\ s \in Client /\ Shape(s) /\ s.pc = l /\ s.fd = r.fd /\ s.op = r.op
        /\ s.key = r.key /\ s.text = r.text /\ s.task = "pre" /\ s.temp = r.temp
    <3>1. /\ me[c].pc \in Storing /\ me[c].pc \notin Writing
          /\ l \in Storing /\ l \notin Writing
      BY <1>1 DEF Storing, Writing
    <3> QED
      BY <3>1, NextShape
  <2>2. me' = [me EXCEPT ![c] = s]
    BY <1>3
  <2> HIDE DEF s
  <2> QED
    BY <1>1, <1>3, <2>1, <2>2, GoStep
<1>4. CASE marker \in {"ok", "absent"}
  BY <1>3, <1>4 DEF EnsureOwnedRoot, Go
<1>5. CASE marker = "partial"
  <2>1. me' = [me EXCEPT ![c] = Idle]
    BY <1>5 DEF EnsureOwnedRoot, Fail, Become
  <2> QED
    BY <1>1, <1>2, <2>1, FailStep
<1> QED
  BY <1>4, <1>5 DEF SafeInv, TypeOK

\* The next step of a store whose step changed the marker or the shard at most.
LEMMA MarkGo ==
    ASSUME SafeInv, NEW c \in Clients, me[c].pc \in Storing \ Writing, NEW l \in Storing \ Writing,
           Go(c, l), UNCHANGED <<entry, temps, files, history, met>>,
           marker' \in {"absent", "partial", "ok"}, shard' \in BOOLEAN
    PROVE  SafeInv'
<1> DEFINE r == me[c]
           s == [r EXCEPT !.pc = l]
<1>1. /\ s \in Client /\ Shape(s) /\ s.pc = l /\ s.fd = r.fd /\ s.op = r.op
      /\ s.key = r.key /\ s.text = r.text /\ s.task = "pre" /\ s.temp = r.temp
  <2>1. me[c].pc \in Storing /\ me[c].pc \notin Writing /\ l \in Storing /\ l \notin Writing
    OBVIOUS
  <2> QED
    BY <2>1, NextShape
<1>2. me' = [me EXCEPT ![c] = s]
  BY DEF Go
<1> HIDE DEF s
<1>3. s.pc \notin {"meta", "payload", "rmKids"}
  BY <1>1 DEF Storing
<1> QED
  BY <1>1, <1>2, <1>3, MarkStep

LEMMA CreateMarkerSafe == ASSUME SafeInv, NEW c \in Clients, CreateMarker(c) PROVE SafeInv'
<1>1. /\ me[c].pc \in Storing \ Writing /\ UNCHANGED <<shard, entry, temps, files, history, met>>
  BY DEF CreateMarker, At, Storing, Writing
<1>2. CASE marker = "absent"
  <2>1. marker' = "partial" /\ Go(c, "wrMarker") /\ "wrMarker" \in Storing \ Writing
    BY <1>2 DEF CreateMarker, Storing, Writing
  <2>2. shard' \in BOOLEAN
    BY <1>1 DEF SafeInv, TypeOK
  <2> QED
    BY <1>1, <2>1, <2>2, MarkGo
<1>3. CASE marker # "absent"
  <2>1. me' = [me EXCEPT ![c] = Idle] /\ UNCHANGED <<disk, history, met>>
    BY <1>1, <1>3 DEF CreateMarker, Fail, Become, disk
  <2>2. me[c].temp = None
    BY <1>1, StoreShape
  <2> QED
    BY <2>1, <2>2, FailStep
<1> QED
  BY <1>2, <1>3

LEMMA WriteMarkerSafe == ASSUME SafeInv, NEW c \in Clients, WriteMarker(c) PROVE SafeInv'
<1>1. /\ me[c].pc \in Storing \ Writing /\ "mkShard" \in Storing \ Writing
      /\ UNCHANGED <<shard, entry, temps, files, history, met>> /\ marker' = "ok" /\ Go(c, "mkShard")
  BY DEF WriteMarker, At, Storing, Writing
<1>2. shard' \in BOOLEAN
  BY <1>1 DEF SafeInv, TypeOK
<1> QED
  BY <1>1, <1>2, MarkGo

LEMMA MakeShardSafe == ASSUME SafeInv, NEW c \in Clients, MakeShard(c) PROVE SafeInv'
<1>1. /\ me[c].pc \in Storing \ Writing /\ "opShard" \in Storing \ Writing
      /\ UNCHANGED <<marker, entry, temps, files, history, met>> /\ shard' = TRUE /\ Go(c, "opShard")
  BY DEF MakeShard, At, Storing, Writing
<1>2. marker' \in {"absent", "partial", "ok"}
  BY <1>1 DEF SafeInv, TypeOK
<1> QED
  BY <1>1, <1>2, MarkGo

LEMMA AcquireShardSafe == ASSUME SafeInv, NEW c \in Clients, AcquireShard(c) PROVE SafeInv'
<1> DEFINE r == me[c]
<1>1. /\ r.pc \in Storing \ Writing /\ "mkTemp" \in Storing \ Writing /\ UNCHANGED <<disk, history, met>>
  BY DEF AcquireShard, At, Storing, Writing
<1>2. r.temp = None
  BY <1>1, StoreShape
<1>3. CASE shard
  <2> DEFINE s == [r EXCEPT !.fd = "live", !.pc = "mkTemp"]
  <2>1. /\ s \in Client /\ Shape(s) /\ s.pc = "mkTemp" /\ s.fd = "live" /\ s.op = r.op
        /\ s.key = r.key /\ s.text = r.text /\ s.task = "pre" /\ s.temp = r.temp
    <3> DEFINE z == [r EXCEPT !.pc = "mkTemp"]
    <3>1. /\ me[c].pc \in Storing /\ me[c].pc \notin Writing
          /\ "mkTemp" \in Storing /\ "mkTemp" \notin Writing
      BY <1>1
    <3>2. /\ z \in Client /\ Shape(z) /\ z.pc = "mkTemp" /\ z.op = r.op
          /\ z.key = r.key /\ z.text = r.text /\ z.task = "pre" /\ z.temp = r.temp
      BY <3>1, NextShape
    <3>3. r \in Client
      BY <3>1, StoreShape
    <3>4. /\ s \in Client /\ s.pc = "mkTemp" /\ s.fd = "live" /\ s.op = r.op
          /\ s.key = r.key /\ s.text = r.text /\ s.task = "pre" /\ s.temp = r.temp
      BY <3>2, <3>3, ClientFields, FieldValues, StepValues
    <3> HIDE DEF s, z, r
    <3>5. Shape(s)
      BY <3>2, <3>4 DEF Shape, Storing, Reading, Removing, Writing
    <3> QED
      BY <3>4, <3>5
  <2>2. me' = [me EXCEPT ![c] = s]
    BY <1>3 DEF AcquireShard
  <2> HIDE DEF s
  <2> QED
    BY <1>1, <2>1, <2>2, GoStep
<1>4. CASE ~shard
  <2>1. me' = [me EXCEPT ![c] = Idle]
    BY <1>4 DEF AcquireShard, Fail, Become
  <2> QED
    BY <1>1, <1>2, <2>1, FailStep
<1> QED
  BY <1>3, <1>4

LEMMA MakeTempSafe == ASSUME SafeInv, NEW c \in Clients, MakeTemp(c) PROVE SafeInv'
<1> DEFINE r == me[c]
<1>1. /\ r.pc \in Storing /\ r.pc \notin Writing /\ r.pc = "mkTemp"
      /\ UNCHANGED <<marker, shard, entry, history, met>>
  BY DEF MakeTemp, At, Storing, Writing
<1>2. /\ r \in Client /\ r.temp = None /\ r.task = "pre" /\ r.op \in {"generate", "put"}
      /\ r.key \in Keys /\ <<r.key, r.text>> \in produced
      /\ r.op = "generate" => r.text \in Texts
      /\ r.op = "put" => r.text = Junk
  BY <1>1, StoreShape
<1>3. CASE r.fd = "dead" /\ Fail(c) /\ UNCHANGED <<temps, files>>
  <2>1. me' = [me EXCEPT ![c] = Idle] /\ UNCHANGED <<disk, history, met>>
    BY <1>1, <1>3 DEF Fail, Become, disk
  <2> QED
    BY <1>2, <2>1, FailStep
<1>4. ASSUME r.fd = "live", NEW d \in Dirs, Fresh(d), temps' = temps \cup {d},
             files' = [files EXCEPT ![d] = NoFiles],
             me' = [me EXCEPT ![c].temp = d, ![c].pc = "wrPayload"]
      PROVE  SafeInv'
  <2>0. PICK s : s = [r EXCEPT !.temp = d, !.pc = "wrPayload"]
    OBVIOUS
  <2>1. /\ s \in Client /\ s.pc = "wrPayload" /\ s.op = r.op /\ s.key = r.key /\ s.text = r.text
        /\ s.task = "pre" /\ s.temp = d /\ s.fd = "live"
    BY <1>2, <1>4, <2>0, ClientFields, FieldValues, StepValues
  <2>2. me' = [me EXCEPT ![c] = s]
    BY <1>4, <2>0
  <2>3. d # None
    BY NamesAssumption
  <2>4. Shape(s)
    BY <1>2, <2>1, <2>3 DEF Shape, Storing, Reading, Removing, Writing, Lookups
  <2>5. files \in [Dirs -> Files] /\ me \in [Clients -> Client] /\ temps \subseteq Dirs
    BY DEF SafeInv, TypeOK
  <2>6. files' \in [Dirs -> Files] /\ temps' \subseteq Dirs
        /\ files'[d].meta = NoFile /\ files'[d].payload = NoFile
        /\ \A e \in Dirs : e # d => files'[e] = files[e]
    BY <1>4, <2>5 DEF Files, NoFiles
  <2>7. \A e \in Dirs : Worn(e)
    BY <2>6 DEF Worn
  <2>8. Turns(c, s)
    BY <2>1, <2>2, <2>4, <2>5, Here DEF Turns, Alike
  <2>9. /\ marker' = marker /\ shard' = shard /\ entry' = entry
        /\ mem' = mem /\ produced' = produced /\ answers' = answers /\ met' = met
    BY <1>1 DEF history
  <2>10. \A b \in Clients : me[b].temp # d
    BY <1>4 DEF Fresh
  <2>11. ASSUME NEW b \in Clients \ {c}, me[b].temp # None
         PROVE  /\ me[b].temp \in temps' => me[b].temp \in temps
                /\ files'[me[b].temp] = files[me[b].temp]
    BY <1>4, <2>6, <2>10, <2>11, TempType
  <2>12. ~Opened(s)
    BY <2>1 DEF Opened
  <2>13. NoPurge' => \A e \in temps' : e = s.temp \/ (e \in temps /\ e # me[c].temp)
    BY <1>2, <1>4, <2>1, <2>5, NamesAssumption
  <2>14. Fits(c, s)
    BY <1>4, <2>1, <2>7, <2>9, <2>11, <2>12, <2>13 DEF Fits
  <2>15. Linked(s)'
    <3>1. Sound(s.temp, s.key)'
      BY <2>1, <2>6 DEF Sound
    <3> QED
      BY <1>2, <2>1, <2>9, <3>1 DEF Linked
  <2>16. Linked(me[c])'
    BY <2>8, <2>15 DEF Linked, Turns
  <2>17. /\ Typed' /\ IsFiniteSet(met') /\ mem' \in [Clients -> Seq(Keys \X Texts)]
         /\ \A b \in Clients : Dictionary(mem'[b]) /\ Len(mem'[b]) <= MemCap
         /\ AnswersProduced'
    BY <2>6, <2>9 DEF SafeInv, TypeOK, Typed, AnswersProduced
  <2> QED
    BY <2>8, <2>14, <2>16, <2>17, SafeStep
<1> QED
  BY <1>3, <1>4 DEF MakeTemp

\* A store writes, or fails to write, into its own temporary directory.
LEMMA WriteStep ==
    ASSUME SafeInv, NEW c \in Clients, NEW s \in Client, me' = [me EXCEPT ![c] = s],
           me[c].pc \in Writing, UNCHANGED <<marker, shard, entry, temps, history>>,
           NEW f \in {"meta", "payload"}, NEW v \in {me[c].text, Torn},
           files' = [files EXCEPT ![me[c].temp][f] = v],
           met \subseteq met', met' \subseteq Faults, IsFiniteSet(met'), Cardinality(met') <= MaxFaults,
           me[c].temp \in temps, Shape(s), s.pc \notin {"meta", "payload", "rmKids"}, s.task # "purge",
           s.key = me[c].key, s.text = me[c].text, s.temp = me[c].temp, s.fd = me[c].fd
    PROVE  SafeInv'
<1> DEFINE r == me[c]
           d == r.temp
<1>1. /\ r \in Client /\ Linked(r) /\ d \in Dirs /\ d # None /\ r.text \in Payloads
      /\ <<r.key, r.text>> \in produced
  <2>1. r.pc \in Storing
    BY DEF Writing, Storing
  <2> QED
    BY <2>1, StoreShape, NamesAssumption
<1>2. /\ marker' = marker /\ shard' = shard /\ entry' = entry /\ temps' = temps
      /\ mem' = mem /\ produced' = produced /\ answers' = answers
  BY DEF history
<1>3. files \in [Dirs -> Files] /\ me \in [Clients -> Client] /\ temps \subseteq Dirs
  BY DEF SafeInv, TypeOK
<1>4. /\ files' \in [Dirs -> Files]
      /\ \A e \in Dirs : e # d => files'[e] = files[e]
      /\ files'[d][f] = v
      /\ \A g \in {"meta", "payload"} : g # f => files'[d][g] = files[d][g]
  BY <1>1, <1>3 DEF Files
<1>5. \A e \in Dirs : Worn(e) \/ (e = d /\ e = s.temp)
  BY <1>4 DEF Worn
<1>6. Turns(c, s)
  BY <1>3, Here DEF Turns, Alike
<1>7. ASSUME NEW b \in Clients \ {c}, me[b].temp # None PROVE files'[me[b].temp] = files[me[b].temp]
  <2>1. me[b].temp # d
    BY <1>7 DEF SafeInv, Separate
  <2> QED
    BY <1>4, <1>7, <2>1, TempType
<1>8. ~Opened(s)
  BY DEF Opened
<1>9. NoPurge' => \A e \in temps' : e = s.temp \/ (e \in temps /\ e # me[c].temp)
  BY <1>2
<1>10. Fits(c, s)
  BY <1>2, <1>5, <1>7, <1>8, <1>9 DEF Fits
<1>11. Linked(s)'
  <2>1. Sound(s.temp, s.key)'
    <3>1. Sound(d, r.key)
      BY <1>1 DEF Linked
    <3>2. f = "meta" \/ f = "payload"
      OBVIOUS
    <3> HIDE DEF r, d
    <3>3. s.temp = d /\ s.key = r.key
      BY DEF r, d
    <3>4. v = Torn \/ <<r.key, v>> \in produced
      BY <1>1 DEF r
    <3> QED
      BY <1>2, <1>4, <3>1, <3>2, <3>3, <3>4 DEF Sound
  <2> QED
    BY <1>1, <1>2, <2>1 DEF Linked
<1>12. Linked(me[c])'
  BY <1>6, <1>11 DEF Linked, Turns
<1>13. /\ Typed' /\ IsFiniteSet(met') /\ mem' \in [Clients -> Seq(Keys \X Texts)]
       /\ \A b \in Clients : Dictionary(mem'[b]) /\ Len(mem'[b]) <= MemCap
       /\ AnswersProduced'
  BY <1>2, <1>4 DEF SafeInv, TypeOK, Typed, AnswersProduced
<1> QED
  BY <1>6, <1>10, <1>12, <1>13, SafeStep

LEMMA WriteFileSafe ==
    ASSUME SafeInv, NEW c \in Clients, NEW f \in {"meta", "payload"},
           NEW here \in Writing, NEW next \in Writing, WriteFile(c, here, f, next)
    PROVE  SafeInv'
<1> DEFINE r == me[c]
<1>1. /\ r.pc \in Storing /\ r.pc \in Writing
      /\ UNCHANGED <<marker, shard, entry, temps, history, met>>
  BY DEF WriteFile, At, Storing, Writing
<1>2. /\ r \in Client /\ Shape(r) /\ r.temp \in Dirs /\ r.temp # None /\ r.task = "pre"
  BY <1>1, StoreShape, NamesAssumption
<1>3. CASE r.temp \in temps
  <2> DEFINE s == [r EXCEPT !.pc = next]
             v == r.text
  <2>1. /\ s \in Client /\ Shape(s) /\ s.pc = next /\ s.fd = r.fd /\ s.op = r.op
        /\ s.key = r.key /\ s.text = r.text /\ s.task = "pre" /\ s.temp = r.temp
    <3>1. /\ me[c].pc \in Storing /\ me[c].pc \in Writing
          /\ next \in Storing /\ next \in Writing
      BY <1>1 DEF Writing, Storing
    <3> QED
      BY <3>1, NextShape
  <2>2. me' = [me EXCEPT ![c] = s]
    BY <1>3 DEF WriteFile, Go
  <2>3. files' = [files EXCEPT ![r.temp][f] = v] /\ v \in {r.text, Torn}
    BY <1>3 DEF WriteFile
  <2>4. s.pc \notin {"meta", "payload", "rmKids"} /\ s.task # "purge"
    BY <2>1 DEF Writing
  <2>5. /\ met \subseteq met' /\ met' \subseteq Faults /\ IsFiniteSet(met') /\ Cardinality(met') <= MaxFaults
        /\ UNCHANGED <<marker, shard, entry, temps, history>>
    BY <1>1 DEF SafeInv, TypeOK
  <2> HIDE DEF s, v
  <2> QED
    BY <1>1, <1>3, <2>1, <2>2, <2>3, <2>4, <2>5, WriteStep
<1>4. CASE r.temp \notin temps
  <2>1. me' = [me EXCEPT ![c] = Cleanup(r, "error")] /\ UNCHANGED <<disk, history, met>>
    BY <1>1, <1>4 DEF WriteFile, Become, disk
  <2>2. Leaves(r, Cleanup(r, "error"), r.text) /\ Cleanup(r, "error").temp = r.temp
    BY <1>2, CleanupLeaves
  <2> QED
    BY <2>1, <2>2, LeaveStep
<1> QED
  BY <1>3, <1>4

LEMMA DisturbKeeps ==
    ASSUME SafeInv, NEW kind, Disturb(kind)
    PROVE  /\ met \subseteq met' /\ met' \subseteq Faults /\ IsFiniteSet(met')
           /\ Cardinality(met') <= MaxFaults /\ kind \in met'
<1>1. IsFiniteSet(met) /\ met \subseteq Faults /\ kind \in Faults /\ met' = met \cup {kind}
      /\ Cardinality(met) < MaxFaults /\ kind \notin met
  BY DEF SafeInv, TypeOK, Disturb
<1>2. Cardinality(met) \in Nat
  BY <1>1, FS_CardinalityType
<1>3. IsFiniteSet(met') /\ Cardinality(met') = Cardinality(met) + 1
  BY <1>1, FS_AddElement
<1> QED
  BY <1>1, <1>2, <1>3, BoundsAssumption

LEMMA WriteFailsSafe == ASSUME SafeInv, NEW c \in Clients, WriteFails(c) PROVE SafeInv'
<1> DEFINE r == me[c]
           s == Cleanup(r, "error")
<1>1. PICK w \in {<<"wrPayload", "payload">>, <<"wrMeta", "meta">>} :
         r.pc = w[1] /\ files' = [files EXCEPT ![r.temp][w[2]] = Torn]
  BY DEF WriteFails, At
<1>2. /\ r.pc \in Writing /\ r.pc \in Storing /\ w[2] \in {"meta", "payload"} /\ Torn \in {r.text, Torn}
  BY <1>1 DEF Writing, Storing
<1>3. /\ met \subseteq met' /\ met' \subseteq Faults /\ IsFiniteSet(met') /\ Cardinality(met') <= MaxFaults
      /\ r.temp \in temps /\ UNCHANGED <<marker, shard, entry, temps, history>>
      /\ me' = [me EXCEPT ![c] = s]
  BY DisturbKeeps DEF WriteFails, Become
<1>4. r \in Client /\ Shape(r) /\ r.temp # None /\ r.task = "pre"
  BY <1>2, StoreShape, NamesAssumption
<1>5. /\ Leaves(r, s, r.text) /\ s.key = r.key /\ s.text = r.text /\ s.temp = r.temp
      /\ s.fd = r.fd /\ s.pc = "rmOpen" /\ s.task = "cleanup"
  BY <1>4, CleanupLeaves
<1> HIDE DEF s
<1>6. s \in Client /\ Shape(s)
  BY <1>5 DEF Leaves
<1> QED
  BY <1>1, <1>2, <1>3, <1>5, <1>6, WriteStep

LEMMA PublishSafe == ASSUME SafeInv, NEW c \in Clients, Publish(c) PROVE SafeInv'
<1> DEFINE r == me[c]
           d == r.temp
<1>1. /\ r.pc \in Storing /\ r.pc \in Writing
      /\ UNCHANGED <<marker, shard, files, history, met>>
  BY DEF Publish, At, Storing, Writing
<1>2. /\ r \in Client /\ Shape(r) /\ Linked(r) /\ d \in Dirs /\ d # None /\ r.task = "pre"
      /\ r.op \in {"generate", "put"} /\ r.key \in Keys /\ r.pc # "idle"
      /\ r.op = "generate" => r.text \in Texts
      /\ <<r.key, r.text>> \in produced
      /\ r.op = "put" => r.text = Junk
  BY <1>1, StoreShape, NamesAssumption
<1>3. CASE CanRename(c)
  <2> DEFINE q == [r EXCEPT !.temp = None]
  <2>0. PICK s : s = Stored(q, "stored")
    OBVIOUS
  <2>1. /\ me' = [me EXCEPT ![c] = s] /\ temps' = temps \ {d}
        /\ entry' = [entry EXCEPT ![r.key] = d]
    BY <1>3, <2>0 DEF Publish, Become
  <2>2. /\ q \in Client /\ q.op = r.op /\ q.key = r.key /\ q.text = r.text /\ q.task = r.task
    BY <1>2, ClientFields, FieldValues
  <2> HIDE DEF q
  <2>3. Leaves(q, s, q.text) /\ s.temp = None
    <3>1. q.task \in Lookups \cup {"discard", "collide", "cleanup"}
      BY <1>2, <2>2 DEF Lookups
    <3> QED
      BY <1>2, <2>0, <2>2, <3>1, StoredLeaves
  <2>4. /\ s \in Client /\ Shape(s) /\ s.pc \notin {"meta", "payload", "rmKids"}
        /\ s.text # None => s.text = r.text /\ s.key = r.key
        /\ s.task # "purge"
    BY <1>2, <2>2, <2>3 DEF Leaves
  <2>5. me \in [Clients -> Client] /\ temps \subseteq Dirs /\ entry \in [Keys -> Dirs \cup {None}]
    BY DEF SafeInv, TypeOK
  <2>6. Turns(c, s)
    BY <2>1, <2>4, <2>5, Here DEF Turns, Alike
  <2>7. /\ marker' = marker /\ shard' = shard /\ files' = files
        /\ mem' = mem /\ produced' = produced /\ answers' = answers /\ met' = met
    BY <1>1 DEF history
  <2>8. Fits(c, s)
    <3>1. \A e : Worn(e)
      BY <2>7 DEF Worn
    <3>2. \A k \in Keys : \/ entry'[k] \in {None, entry[k]}
                          \/ k = me[c].key /\ entry'[k] = me[c].temp /\ s.temp = None
      BY <1>2, <2>1, <2>3, <2>5
    <3>3. ~Opened(s)
      BY <2>4 DEF Opened
    <3>4. NoPurge' => \A e \in temps' : e = s.temp \/ (e \in temps /\ e # me[c].temp)
      BY <2>1
    <3> QED
      BY <2>1, <2>3, <2>7, <3>1, <3>2, <3>3, <3>4 DEF Fits
  <2>9. Linked(s)'
    BY <1>2, <2>3, <2>4, <2>7 DEF Linked
  <2>10. Linked(me[c])'
    BY <2>6, <2>9 DEF Linked, Turns
  <2>11. /\ Typed' /\ IsFiniteSet(met') /\ mem' \in [Clients -> Seq(Keys \X Texts)]
         /\ \A b \in Clients : Dictionary(mem'[b]) /\ Len(mem'[b]) <= MemCap
         /\ AnswersProduced'
    <3>1. temps' \subseteq Dirs /\ entry' \in [Keys -> Dirs \cup {None}]
      BY <1>2, <2>1, <2>5
    <3> QED
      BY <2>7, <3>1 DEF SafeInv, TypeOK, Typed, AnswersProduced
  <2> QED
    BY <2>6, <2>8, <2>10, <2>11, SafeStep
<1>4. CASE ~CanRename(c)
  <2> DEFINE s == [r EXCEPT !.task = "collide", !.pc = "open"]
  <2>1. me' = [me EXCEPT ![c] = s] /\ UNCHANGED <<disk, history, met>>
    BY <1>1, <1>4 DEF Publish, disk
  <2>2. /\ s \in Client /\ s.pc = "open" /\ s.op = r.op /\ s.key = r.key /\ s.text = r.text
        /\ s.task = "collide" /\ s.temp = r.temp /\ s.fd = r.fd
    BY <1>2, ClientFields, FieldValues, StepValues
  <2> HIDE DEF s
  <2>3. Shape(s)
    BY <1>2, <2>2 DEF Shape, Storing, Reading, Removing, Writing, Lookups
  <2> QED
    BY <2>1, <2>2, <2>3, GoStep
<1> QED
  BY <1>3, <1>4

-----------------------------------------------------------------------------
(***************************************************************************)
(* generate, put, the environment.                                         *)
(***************************************************************************)
\* A step that leaves the disk alone: the client gives up a temporary directory only by dying.
LEMMA TellStep ==
    ASSUME SafeInv, NEW c \in Clients, NEW s \in Client, NEW m \in Seq(Pairs),
           me' = [me EXCEPT ![c] = s], mem' = [mem EXCEPT ![c] = m], UNCHANGED disk,
           Shape(s), s.pc \notin {"meta", "payload", "rmKids"}, s.temp = None,
           s.text # None => <<s.key, s.text>> \in produced',
           s.task = "purge" => "purge" \in met',
           me[c].temp = None \/ ~NoPurge',
           Dictionary(m), Len(m) <= MemCap, \A i \in 1 .. Len(m) : m[i] \in produced',
           produced \subseteq produced', produced' \subseteq Keys \X Payloads,
           answers' \subseteq produced', answers' \subseteq Keys \X Texts,
           met \subseteq met', met' \subseteq Faults, IsFiniteSet(met'), Cardinality(met') <= MaxFaults
    PROVE  SafeInv'
<1>1. /\ marker' = marker /\ shard' = shard /\ entry' = entry /\ temps' = temps /\ files' = files
  BY DEF disk
<1>2. me \in [Clients -> Client] /\ mem \in [Clients -> Seq(Keys \X Texts)] /\ temps \subseteq Dirs
  BY DEF SafeInv, TypeOK
<1>3. Turns(c, s)
  BY <1>2, Here DEF Turns, Alike
<1>4. Fits(c, s)
  <2>1. \A d : Worn(d)
    BY <1>1 DEF Worn
  <2>2. ~Opened(s)
    BY DEF Opened
  <2>3. NoPurge' => \A d \in temps' : d = s.temp \/ (d \in temps /\ d # me[c].temp)
    BY <1>1, <1>2, NamesAssumption
  <2> QED
    BY <1>1, <2>1, <2>2, <2>3 DEF Fits
<1>5. Linked(s)'
  BY DEF Linked
<1>6. Linked(me[c])'
  BY <1>3, <1>5 DEF Linked, Turns
<1>7. mem' \in [Clients -> Seq(Keys \X Texts)] /\ \A b \in Clients : mem'[b] = IF b = c THEN m ELSE mem[b]
  BY <1>2 DEF Pairs
<1>8. \A b \in Clients : Dictionary(mem'[b]) /\ Len(mem'[b]) <= MemCap
  BY <1>7 DEF SafeInv, TypeOK
<1>9. AnswersProduced'
  BY <1>7 DEF SafeInv, AnswersProduced
<1>10. Typed'
  BY <1>1 DEF SafeInv, TypeOK, Typed
<1> QED
  BY <1>3, <1>4, <1>6, <1>7, <1>8, <1>9, <1>10, SafeStep

\* What a provider puts into its cache is something produced.
LEMMA CacheTells ==
    ASSUME SafeInv, NEW c \in Clients, NEW k \in Keys, NEW t \in Texts, <<k, t>> \in produced',
           produced \subseteq produced'
    PROVE  LET m == PutCache(mem[c], k, t)
           IN  /\ m \in Seq(Pairs) /\ Dictionary(m) /\ Len(m) <= MemCap
               /\ \A i \in 1 .. Len(m) : m[i] \in produced'
<1>1. mem[c] \in Seq(Pairs) /\ Dictionary(mem[c]) /\ Len(mem[c]) <= MemCap
  BY DEF SafeInv, TypeOK, Pairs
<1> DEFINE m == PutCache(mem[c], k, t)
<1>2. /\ m \in Seq(Pairs) /\ Len(m) <= MemCap /\ Dictionary(m)
      /\ \A i \in 1 .. Len(m) :
            m[i] = <<k, t>> \/ (m[i][1] # k /\ \E j \in 1 .. Len(mem[c]) : m[i] = mem[c][j])
  BY <1>1, PutCacheKeeps
<1> HIDE DEF m
<1>3. \A i \in 1 .. Len(m) : m[i] \in produced'
  BY <1>2 DEF SafeInv, AnswersProduced
<1> QED
  BY <1>2, <1>3 DEF m

LEMMA CachedTold ==
    ASSUME SafeInv, NEW c \in Clients, NEW k \in Keys, NEW t \in Cached(c, k)
    PROVE  t \in Texts /\ <<k, t>> \in produced /\ \E i \in 1 .. Len(mem[c]) : mem[c][i] = <<k, t>>
<1>1. PICK i \in 1 .. Len(mem[c]) : mem[c][i][1] = k /\ t = mem[c][i][2]
  BY DEF Cached
<1>2. mem[c] \in Seq(Keys \X Texts)
  BY DEF SafeInv, TypeOK
<1>3. mem[c][i] \in Keys \X Texts
  BY <1>1, <1>2, ElementOfSeq
<1>4. mem[c][i] = <<k, t>>
  BY <1>1, <1>3
<1> QED
  BY <1>1, <1>3, <1>4 DEF SafeInv, AnswersProduced

\* A client that is in no call holds nothing.
LEMMA IdleShape ==
    ASSUME SafeInv, NEW c \in Clients, me[c].pc = "idle"
    PROVE  me[c] = Idle /\ me[c].temp = None
<1>1. me[c] = Idle
  BY Here DEF Shape
<1> QED
  BY <1>1 DEF Idle

LEMMA GenerateSafe == ASSUME SafeInv, NEW c \in Clients, NEW k \in Keys, Generate(c, k) PROVE SafeInv'
<1>1. /\ me[c] = Idle /\ me[c].temp = None /\ me[c] \in Client /\ Shape(me[c])
      /\ UNCHANGED <<disk, produced, met>>
  BY IdleShape, Here DEF Generate, At
<1>2. /\ produced' = produced /\ produced \subseteq Keys \X Payloads /\ answers \subseteq produced
      /\ answers \subseteq Keys \X Texts /\ me \in [Clients -> Client]
      /\ met' = met /\ met \subseteq Faults /\ IsFiniteSet(met) /\ Cardinality(met) <= MaxFaults
  BY <1>1 DEF SafeInv, TypeOK, AnswersProduced
<1>3. CASE Cached(c, k) # {}
  <2>1. PICK t \in Cached(c, k) : mem' = [mem EXCEPT ![c] = PutCache(mem[c], k, t)]
                                  /\ answers' = answers \cup {<<k, t>>}
    BY <1>3 DEF Generate
  <2>2. t \in Texts /\ <<k, t>> \in produced
    BY CachedTold
  <2> DEFINE m == PutCache(mem[c], k, t)
  <2>3. /\ m \in Seq(Pairs) /\ Dictionary(m) /\ Len(m) <= MemCap
        /\ \A i \in 1 .. Len(m) : m[i] \in produced'
    BY <1>2, <2>2, CacheTells
  <2>4. mem' = [mem EXCEPT ![c] = m] /\ me' = [me EXCEPT ![c] = Idle]
    BY <1>1, <1>2, <1>3, <2>1 DEF Generate
  <2>5. Idle.pc = "idle" /\ Idle.text = None /\ Idle.temp = None /\ Idle.task = "none"
    BY DEF Idle
  <2>6. answers' \subseteq produced' /\ answers' \subseteq Keys \X Texts
    BY <1>2, <2>1, <2>2
  <2> HIDE DEF m
  <2> QED
    BY <1>1, <1>2, <2>3, <2>4, <2>5, <2>6, IdleLeaves, TellStep
<1>4. CASE Cached(c, k) = {}
  <2> DEFINE s == [Idle EXCEPT !.op = "generate", !.key = k, !.pc = "root", !.task = "first"]
  <2>1. me' = [me EXCEPT ![c] = s] /\ UNCHANGED <<disk, history, met>>
    BY <1>1, <1>4 DEF Generate, Become, history
  <2>2. /\ s \in Client /\ s.pc = "root" /\ s.op = "generate" /\ s.key = k /\ s.text = None
        /\ s.task = "first" /\ s.temp = None
    <3>1. Idle \in Client /\ Idle.text = None /\ Idle.temp = None
      BY IdleLeaves DEF Idle
    <3> QED
      BY <3>1, ClientFields, FieldValues, StepValues
  <2> HIDE DEF s
  <2>3. Shape(s)
    BY <2>2 DEF Shape, Storing, Reading, Removing, Writing, Lookups
  <2>4. Linked(s) /\ ~Opened(s)
    BY <2>2 DEF Linked, Opened
  <2> QED
    BY <1>1, <2>1, <2>2, <2>3, <2>4, ReadStep
<1> QED
  BY <1>3, <1>4

LEMMA CallSafe == ASSUME SafeInv, NEW c \in Clients, Call(c) PROVE SafeInv'
<1> DEFINE r == me[c]
<1>1. /\ r \in Client /\ Shape(r) /\ r.pc = "call" /\ r.op = "generate" /\ r.key \in Keys
      /\ r.temp = None /\ r.task \in {"first", "discard"}
      /\ UNCHANGED <<disk, answers, met>>
  <2>1. r \in Client /\ Shape(r) /\ r.pc = "call" /\ UNCHANGED <<disk, answers, met>>
    BY Here DEF Call, At
  <2> QED
    BY <2>1 DEF Shape, Reading, Writing, Removing
<1>2. /\ produced \subseteq Keys \X Payloads /\ answers \subseteq produced
      /\ answers \subseteq Keys \X Texts
      /\ met' = met /\ met \subseteq Faults /\ IsFiniteSet(met) /\ Cardinality(met) <= MaxFaults
  BY <1>1 DEF SafeInv, TypeOK, AnswersProduced
<1>3. ASSUME NEW t \in Texts, mem' = [mem EXCEPT ![c] = PutCache(mem[c], r.key, t)],
             produced' = produced \cup {<<r.key, t>>},
             me' = [me EXCEPT ![c] = [Lookup(r, "pre") EXCEPT !.text = t]]
      PROVE  SafeInv'
  <2> DEFINE m == PutCache(mem[c], r.key, t)
             q == Close(r)
             s == [Lookup(r, "pre") EXCEPT !.text = t]
  <2>1. /\ produced \subseteq produced' /\ <<r.key, t>> \in produced'
        /\ produced' \subseteq Keys \X Payloads
    BY <1>1, <1>2, <1>3 DEF Payloads
  <2>2. /\ m \in Seq(Pairs) /\ Dictionary(m) /\ Len(m) <= MemCap
        /\ \A i \in 1 .. Len(m) : m[i] \in produced'
    BY <1>1, <2>1, CacheTells
  <2>3. q \in Client /\ q.op = r.op /\ q.key = r.key /\ q.temp = None
    BY <1>1, CloseKeeps
  <2>4. /\ s = [q EXCEPT !.pc = "root", !.task = "pre", !.text = t]
        /\ me' = [me EXCEPT ![c] = s] /\ mem' = [mem EXCEPT ![c] = m]
    BY <1>3 DEF Lookup
  <2> HIDE DEF q, s, m
  <2>5. /\ s \in Client /\ s.pc = "root" /\ s.task = "pre" /\ s.text = t /\ s.op = r.op
        /\ s.key = r.key /\ s.temp = None
    BY <1>1, <2>3, <2>4, ClientFields, FieldValues, StepValues
  <2>6. Shape(s)
    BY <1>1, <2>5 DEF Shape, Storing, Reading, Removing, Writing, Lookups
  <2>7. answers' \subseteq produced' /\ answers' \subseteq Keys \X Texts
    BY <1>1, <1>2, <2>1
  <2> QED
    BY <1>1, <1>2, <2>1, <2>2, <2>4, <2>5, <2>6, <2>7, TellStep
<1>4. ASSUME r.tries < MaxRetries, me' = [me EXCEPT ![c].tries = @ + 1], UNCHANGED <<mem, produced>>
      PROVE  SafeInv'
  <2> DEFINE n == r.tries + 1
             s == [r EXCEPT !.tries = n]
  <2>1. n \in Counts
    BY <1>1, <1>4, ClientFields, BoundsAssumption DEF Counts
  <2>2. me' = [me EXCEPT ![c] = s] /\ UNCHANGED <<disk, history, met>>
    BY <1>1, <1>4 DEF history
  <2> HIDE DEF n
  <2>3. /\ s \in Client /\ s.pc = r.pc /\ s.task = r.task /\ s.text = r.text /\ s.op = r.op
        /\ s.key = r.key /\ s.temp = r.temp /\ s.fd = r.fd
    BY <1>1, <2>1, ClientFields
  <2> HIDE DEF s
  <2>4. Shape(s)
    BY <1>1, <2>3 DEF Shape, Storing, Reading, Removing, Writing
  <2> QED
    BY <1>1, <2>2, <2>3, <2>4, GoStep
<1>5. ASSUME Fail(c), UNCHANGED <<mem, produced>> PROVE SafeInv'
  <2>1. me' = [me EXCEPT ![c] = Idle] /\ UNCHANGED <<disk, history, met>>
    BY <1>1, <1>5 DEF Fail, Become, history
  <2> QED
    BY <1>1, <2>1, FailStep
<1> QED
  BY <1>3, <1>4, <1>5 DEF Call, Become

LEMMA ReturnSafe == ASSUME SafeInv, NEW c \in Clients, Return(c) PROVE SafeInv'
<1> DEFINE r == me[c]
           m == PutCache(mem[c], r.key, r.text)
<1>1. /\ r \in Client /\ Shape(r) /\ Linked(r) /\ r.pc = "return" /\ r.temp = None
      /\ r.key \in Keys /\ r.text \in Texts
      /\ UNCHANGED <<disk, produced, met>>
  <2>1. r \in Client /\ Shape(r) /\ Linked(r) /\ r.pc = "return" /\ UNCHANGED <<disk, produced, met>>
    BY Here DEF Return, At
  <2> QED
    BY <2>1 DEF Shape, Reading, Writing, Removing
<1>2. /\ produced \subseteq Keys \X Payloads /\ answers \subseteq produced
      /\ answers \subseteq Keys \X Texts /\ produced' = produced
      /\ met' = met /\ met \subseteq Faults /\ IsFiniteSet(met) /\ Cardinality(met) <= MaxFaults
  BY <1>1 DEF SafeInv, TypeOK, AnswersProduced
<1>3. <<r.key, r.text>> \in produced
  BY <1>1, NamesAssumption DEF Linked, Payloads
<1>4. /\ m \in Seq(Pairs) /\ Dictionary(m) /\ Len(m) <= MemCap
      /\ \A i \in 1 .. Len(m) : m[i] \in produced'
  BY <1>1, <1>2, <1>3, CacheTells
<1>5. /\ me' = [me EXCEPT ![c] = Idle] /\ mem' = [mem EXCEPT ![c] = m]
      /\ answers' = answers \cup {<<r.key, r.text>>}
  BY DEF Return, Become
<1>6. answers' \subseteq produced' /\ answers' \subseteq Keys \X Texts
  BY <1>1, <1>2, <1>3, <1>5
<1>7. Idle.pc = "idle" /\ Idle.text = None /\ Idle.temp = None /\ Idle.task = "none"
  BY DEF Idle
<1> HIDE DEF m
<1> QED
  BY <1>1, <1>2, <1>4, <1>5, <1>6, <1>7, IdleLeaves, TellStep

LEMMA PutSafe == ASSUME SafeInv, NEW c \in Clients, NEW k \in Keys, Put(c, k) PROVE SafeInv'
<1> DEFINE s == [Idle EXCEPT !.op = "put", !.key = k, !.text = Junk, !.pc = "root", !.task = "pre"]
           m == mem[c]
<1>1. /\ me[c].temp = None /\ UNCHANGED <<disk, mem, answers, met>>
      /\ me' = [me EXCEPT ![c] = s] /\ produced' = produced \cup {<<k, Junk>>}
  BY IdleShape DEF Put, At, Become
<1>2. /\ produced \subseteq Keys \X Payloads /\ answers \subseteq produced
      /\ answers \subseteq Keys \X Texts /\ mem \in [Clients -> Seq(Keys \X Texts)]
      /\ Len(m) <= MemCap /\ Dictionary(m) /\ \A i \in 1 .. Len(m) : m[i] \in produced
      /\ met' = met /\ met \subseteq Faults /\ IsFiniteSet(met) /\ Cardinality(met) <= MaxFaults
  BY <1>1 DEF SafeInv, TypeOK, AnswersProduced
<1>3. /\ s \in Client /\ s.pc = "root" /\ s.op = "put" /\ s.key = k /\ s.text = Junk
      /\ s.task = "pre" /\ s.temp = None
  <2>1. Idle \in Client /\ Idle.temp = None
    BY IdleLeaves DEF Idle
  <2> QED
    BY <2>1, ClientFields, FieldValues, StepValues
<1> HIDE DEF s
<1>4. Shape(s)
  BY <1>3 DEF Shape, Storing, Reading, Removing, Writing, Lookups
<1>5. /\ produced \subseteq produced' /\ produced' \subseteq Keys \X Payloads
      /\ <<s.key, s.text>> \in produced'
      /\ answers' \subseteq produced' /\ answers' \subseteq Keys \X Texts
      /\ m \in Seq(Pairs) /\ mem' = [mem EXCEPT ![c] = m]
      /\ \A i \in 1 .. Len(m) : m[i] \in produced'
  BY <1>1, <1>2, <1>3 DEF Payloads, Pairs
<1> HIDE DEF m
<1> QED
  BY <1>1, <1>2, <1>3, <1>4, <1>5, TellStep

LEMMA PurgeSafe == ASSUME SafeInv, NEW c \in Clients, Purge(c) PROVE SafeInv'
<1> DEFINE s == [Idle EXCEPT !.op = "purge", !.pc = "purge", !.task = "purge"]
           m == mem[c]
<1>1. /\ me[c].temp = None /\ UNCHANGED <<disk, history>> /\ Disturb("purge")
      /\ me' = [me EXCEPT ![c] = s]
  BY IdleShape DEF Purge, At, Become
<1>2. /\ produced \subseteq Keys \X Payloads /\ answers \subseteq produced
      /\ answers \subseteq Keys \X Texts /\ mem \in [Clients -> Seq(Keys \X Texts)]
      /\ Len(m) <= MemCap /\ Dictionary(m) /\ \A i \in 1 .. Len(m) : m[i] \in produced
      /\ produced' = produced /\ answers' = answers /\ mem' = mem
  BY <1>1 DEF SafeInv, TypeOK, AnswersProduced, history
<1>3. /\ met \subseteq met' /\ met' \subseteq Faults /\ IsFiniteSet(met') /\ Cardinality(met') <= MaxFaults
      /\ "purge" \in met'
  BY <1>1, DisturbKeeps
<1>4. /\ s \in Client /\ s.pc = "purge" /\ s.op = "purge" /\ s.text = None
      /\ s.task = "purge" /\ s.temp = None
  <2>1. Idle \in Client /\ Idle.temp = None /\ Idle.text = None
    BY IdleLeaves DEF Idle
  <2> QED
    BY <2>1, ClientFields, FieldValues, StepValues
<1> HIDE DEF s
<1>5. Shape(s)
  BY <1>4 DEF Shape, Storing, Reading, Removing, Writing
<1>6. m \in Seq(Pairs) /\ mem' = [mem EXCEPT ![c] = m]
  BY <1>2 DEF Pairs
<1> HIDE DEF m
<1> QED
  BY <1>1, <1>2, <1>3, <1>4, <1>5, <1>6, TellStep

LEMMA CrashSafe == ASSUME SafeInv, NEW c \in Clients, Crash(c) PROVE SafeInv'
<1>1. /\ UNCHANGED <<disk, produced, answers>> /\ Disturb("crash")
      /\ me' = [me EXCEPT ![c] = Idle] /\ mem' = [mem EXCEPT ![c] = <<>>]
  BY DEF Crash, Become
<1>2. /\ produced \subseteq Keys \X Payloads /\ answers \subseteq produced
      /\ answers \subseteq Keys \X Texts /\ produced' = produced /\ answers' = answers
  BY <1>1 DEF SafeInv, TypeOK, AnswersProduced
<1>3. /\ met \subseteq met' /\ met' \subseteq Faults /\ IsFiniteSet(met') /\ Cardinality(met') <= MaxFaults
      /\ ~NoPurge'
  BY <1>1, DisturbKeeps DEF NoPurge
<1>4. PICK m : m = <<>>
  OBVIOUS
<1>5. m \in Seq(Pairs) /\ Len(m) = 0
  BY <1>4
<1>6. Dictionary(m) /\ Len(m) <= MemCap /\ \A i \in 1 .. Len(m) : m[i] \in produced'
  BY <1>5, BoundsAssumption DEF Dictionary
<1>7. Idle.pc = "idle" /\ Idle.text = None /\ Idle.temp = None /\ Idle.task = "none"
  BY DEF Idle
<1> QED
  BY <1>1, <1>2, <1>3, <1>4, <1>5, <1>6, <1>7, IdleLeaves, TellStep

LEMMA DamageSafe == ASSUME SafeInv, NEW k \in Keys, Damage(k) PROVE SafeInv'
<1> DEFINE d == entry[k]
<1>1. /\ d \in Dirs /\ \A b \in Clients : me[b].temp # d
      /\ UNCHANGED <<marker, shard, entry, temps, me, history>>
      /\ met \subseteq met' /\ met' \subseteq Faults /\ IsFiniteSet(met') /\ Cardinality(met') <= MaxFaults
  <2>1. d # None /\ UNCHANGED <<marker, shard, entry, temps, me, history>> /\ Disturb("damage")
    BY DEF Damage
  <2>2. d \in Dirs
    BY <2>1 DEF SafeInv, TypeOK
  <2>3. \A b \in Clients : me[b].temp # d
    BY <2>1 DEF SafeInv, Separate
  <2> QED
    BY <2>1, <2>2, <2>3, DisturbKeeps
<1>20. PICK f \in Children(d) :
          \E v \in {Torn, NoFile} \cup (IF f = "payload" THEN {Flipped} ELSE {}) :
             files' = [files EXCEPT ![d][f] = v]
  BY DEF Damage
<1>2. PICK v \in {Torn, NoFile} \cup (IF f = "payload" THEN {Flipped} ELSE {}) :
         files' = [files EXCEPT ![d][f] = v]
  BY <1>20
<1>3. /\ marker' = marker /\ shard' = shard /\ entry' = entry /\ temps' = temps /\ me' = me
      /\ mem' = mem /\ produced' = produced /\ answers' = answers
  BY <1>1 DEF history
<1>4. files \in [Dirs -> Files]
  BY DEF SafeInv, TypeOK
<1>5. f \in {"meta", "payload"} /\ v \in {Torn, NoFile, Flipped} /\ (f = "meta" => v \in {Torn, NoFile})
  BY <1>2 DEF Children
<1>6. /\ files' \in [Dirs -> Files]
      /\ \A e \in Dirs : e # d => files'[e] = files[e]
      /\ files'[d][f] = v
      /\ \A g \in {"meta", "payload"} : g # f => files'[d][g] = files[d][g]
  BY <1>1, <1>2, <1>4, <1>5 DEF Files
<1>7. \A e \in Dirs : Worn(e)
  BY <1>5, <1>6 DEF Worn
<1>8. ASSUME NEW b \in Clients PROVE Linked(me[b])'
  <2>0. PICK r : r = me[b]
    OBVIOUS
  <2>1. Linked(r) /\ Shape(r) /\ r.temp \in Dirs \cup {None} /\ r.dir \in Dirs \cup {None} /\ r.temp # d
    BY <1>1, <2>0, Here, TempType
  <2>2. r.temp # None => Sound(r.temp, r.key)' /\ files'[r.temp] = files[r.temp]
    <3> SUFFICES ASSUME r.temp # None PROVE Sound(r.temp, r.key)' /\ files'[r.temp] = files[r.temp]
      OBVIOUS
    <3>1. r.temp \in Dirs /\ Sound(r.temp, r.key) /\ files'[r.temp] = files[r.temp]
      BY <1>6, <2>1 DEF Linked
    <3> QED
      BY <1>3, <1>7, <3>1, WornSound
  <2>3. r.pc \in {"meta", "payload"} => Sound(r.dir, r.key)'
    <3> SUFFICES ASSUME r.pc \in {"meta", "payload"} PROVE Sound(r.dir, r.key)'
      OBVIOUS
    <3>1. r.dir \in Dirs /\ Sound(r.dir, r.key)
      BY <2>1 DEF Linked, Shape
    <3> QED
      BY <1>3, <1>7, <3>1, WornSound
  <2>4. NoPurge' /\ r.pc = "rmKids" /\ r.task = "cleanup" => r.kids = Children(r.temp)'
    <3> SUFFICES ASSUME NoPurge', r.pc = "rmKids", r.task = "cleanup" PROVE r.kids = Children(r.temp)'
      OBVIOUS
    <3>1. NoPurge
      BY <1>1 DEF NoPurge
    <3>2. r.temp # None /\ r.kids = Children(r.temp)
      BY <2>1, <3>1 DEF Linked, Shape, Removing
    <3> QED
      BY <2>2, <3>2 DEF Children
  <2>5. /\ r.text # None => <<r.key, r.text>> \in produced'
        /\ r.pc = "payload" => <<r.key, r.sum>> \in produced'
        /\ r.temp # None /\ r.fd # "live" => r.temp \notin temps'
        /\ r.task = "purge" => "purge" \in met'
    BY <1>1, <1>3, <2>1 DEF Linked
  <2>6. Linked(r)'
    BY <2>2, <2>3, <2>4, <2>5 DEF Linked
  <2> QED
    BY <1>3, <2>0, <2>6 DEF Linked
<1>9. EntriesSound'
  <2> SUFFICES ASSUME NEW j \in Keys, NEW e, e = entry'[j], e # None PROVE Sound(e, j)'
    BY DEF EntriesSound
  <2>1. e \in Dirs /\ Sound(e, j)
    BY <1>3 DEF SafeInv, TypeOK, EntriesSound
  <2> QED
    BY <1>3, <1>7, <2>1, WornSound
<1>10. Separate' /\ AnswersProduced'
  BY <1>3 DEF SafeInv, Separate, AnswersProduced, Opened
<1>11. NoOrphanTemps'
  BY <1>1, <1>3 DEF SafeInv, NoOrphanTemps
<1>12. (\A c \in Clients : Shape(me[c]) /\ Linked(me[c]) /\ Dictionary(mem[c]))'
  BY <1>3, <1>8 DEF SafeInv, Shape, Dictionary
<1>13. (TypeOK /\ IsFiniteSet(met))'
  BY <1>1, <1>3, <1>6 DEF SafeInv, TypeOK
<1> QED
  BY <1>9, <1>10, <1>11, <1>12, <1>13 DEF SafeInv

-----------------------------------------------------------------------------
(***************************************************************************)
(* What the cache guarantees through any disturbance.                      *)
(***************************************************************************)
LEMMA SafeInit == Init => SafeInv
<1> SUFFICES ASSUME Init PROVE SafeInv
  OBVIOUS
<1>1. /\ me = [c \in Clients |-> Idle] /\ mem = [c \in Clients |-> <<>>] /\ met = {}
      /\ temps = {} /\ produced = {} /\ answers = {} /\ files = [d \in Dirs |-> NoFiles]
      /\ entry = [k \in Keys |-> None] /\ marker = InitMarker /\ shard = FALSE
  BY DEF Init
<1>2. IsFiniteSet(met) /\ Cardinality(met) = 0
  BY <1>1, FS_EmptySet
<1>3. TypeOK
  <2>1. me \in [Clients -> Client] /\ files \in [Dirs -> Files]
    BY <1>1, IdleLeaves DEF Files, NoFiles
  <2>2. mem \in [Clients -> Seq(Keys \X Texts)] /\ \A c \in Clients : Len(mem[c]) <= MemCap
    BY <1>1, BoundsAssumption
  <2>3. marker \in {"absent", "partial", "ok"}
    BY <1>1, MarkerAssumption
  <2>4. shard \in BOOLEAN /\ entry \in [Keys -> Dirs \cup {None}] /\ temps \subseteq Dirs
    BY <1>1
  <2>5. produced \subseteq Keys \X Payloads /\ answers \subseteq Keys \X Texts
    BY <1>1
  <2>6. met \subseteq Faults /\ Cardinality(met) <= MaxFaults
    BY <1>1, <1>2, BoundsAssumption
  <2> QED
    BY <2>1, <2>2, <2>3, <2>4, <2>5, <2>6 DEF TypeOK
<1>4. \A c \in Clients : me[c] = Idle /\ Len(mem[c]) = 0
  BY <1>1
<1>5. Idle.pc = "idle" /\ Idle.text = None /\ Idle.temp = None /\ Idle.task = "none"
  BY DEF Idle
<1>6. \A c \in Clients : Shape(me[c]) /\ Linked(me[c]) /\ Dictionary(mem[c])
  BY <1>4, <1>5, IdleLeaves DEF Linked, Dictionary
<1>7. Separate
  BY <1>1, <1>4, <1>5 DEF Separate, Opened
<1>8. EntriesSound /\ AnswersProduced /\ NoOrphanTemps
  BY <1>1, <1>4 DEF EntriesSound, AnswersProduced, NoOrphanTemps
<1> QED
  BY <1>2, <1>3, <1>6, <1>7, <1>8 DEF SafeInv

LEMMA WorkSafe == ASSUME SafeInv, NEW c \in Clients, Work(c) PROVE SafeInv'
<1>1. CASE Call(c) \/ Return(c)
  BY <1>1, CallSafe, ReturnSafe
<1>2. CASE Read(c)
  BY <1>2, ValidateRootSafe, OpenShardSafe, StatEntrySafe, OpenEntrySafe, ReadMetadataSafe,
     ReadPayloadSafe DEF Read
<1>3. CASE Remove(c)
  BY <1>3, RemoveOpenSafe, RemoveChildSafe, RemoveDirectorySafe, RemoveEmptyShardSafe DEF Remove
<1>4. CASE Store(c)
  <2>1. CASE WritePayload(c)
    <3>1. WriteFile(c, "wrPayload", "payload", "wrMeta") /\ "wrPayload" \in Writing /\ "wrMeta" \in Writing
      BY <2>1 DEF WritePayload, Writing
    <3> QED
      BY <3>1, WriteFileSafe
  <2>2. CASE WriteMetadata(c)
    <3>1. WriteFile(c, "wrMeta", "meta", "publish") /\ "wrMeta" \in Writing /\ "publish" \in Writing
      BY <2>2 DEF WriteMetadata, Writing
    <3> QED
      BY <3>1, WriteFileSafe
  <2> QED
    BY <1>4, <2>1, <2>2, EnsureOwnedRootSafe, CreateMarkerSafe, WriteMarkerSafe, MakeShardSafe,
       AcquireShardSafe, MakeTempSafe, PublishSafe DEF Store
<1>5. CASE PurgeStep(c)
  BY <1>5, PurgeRootSafe, PurgeListSafe, PurgeEntrySafe, PurgeShardSafe DEF PurgeStep
<1> QED
  BY <1>1, <1>2, <1>3, <1>4, <1>5 DEF Work

LEMMA SafeNext == SafeInv /\ [Next]_vars => SafeInv'
<1> SUFFICES ASSUME SafeInv, [Next]_vars PROVE SafeInv'
  OBVIOUS
<1>1. CASE \E c \in Clients : Work(c) \/ WriteFails(c) \/ Crash(c) \/ Purge(c)
  BY <1>1, WorkSafe, WriteFailsSafe, CrashSafe, PurgeSafe
<1>2. CASE \E c \in Clients : \E k \in Keys : Generate(c, k) \/ Put(c, k)
  BY <1>2, GenerateSafe, PutSafe
<1>3. CASE \E k \in Keys : Damage(k)
  BY <1>3, DamageSafe
<1>4. CASE UNCHANGED vars
  <2>1. /\ marker' = marker /\ shard' = shard /\ entry' = entry /\ temps' = temps /\ files' = files
        /\ me' = me /\ mem' = mem /\ produced' = produced /\ answers' = answers /\ met' = met
    BY <1>4 DEF vars
  <2>2. (TypeOK /\ IsFiniteSet(met))'
    BY <2>1 DEF SafeInv, TypeOK
  <2>3. ASSUME NEW b \in Clients PROVE (Shape(me[b]) /\ Linked(me[b]) /\ Dictionary(mem[b]))'
    <3>1. Shape(me[b]) /\ Linked(me[b]) /\ Dictionary(mem[b])
      BY DEF SafeInv
    <3>2. Shape(me[b])'
      BY <2>1, <3>1 DEF Shape
    <3>3. Linked(me[b])'
      BY <2>1, <3>1 DEF Linked, Sound, NoPurge, Children
    <3>4. Dictionary(mem[b])'
      BY <2>1, <3>1 DEF Dictionary
    <3> QED
      BY <3>2, <3>3, <3>4
  <2>4. Separate'
    BY <2>1 DEF SafeInv, Separate, Opened
  <2>5. EntriesSound'
    BY <2>1 DEF SafeInv, EntriesSound, Sound
  <2>6. AnswersProduced'
    BY <2>1 DEF SafeInv, AnswersProduced
  <2>7. NoOrphanTemps'
    BY <2>1 DEF SafeInv, NoOrphanTemps
  <2> QED
    BY <2>2, <2>3, <2>4, <2>5, <2>6, <2>7 DEF SafeInv
<1> QED
  BY <1>1, <1>2, <1>3, <1>4 DEF Next

\* Whatever the processes, the crashes, the failed writes and the damage: an answer of generate
\* and an entry of a process-local cache is a payload given to store for that very key, and a
\* temporary directory belongs to a store in progress unless a process died or a purge ran.
THEOREM CacheStaysSound == Spec => []CacheSound
<1>1. SafeInv => CacheSound
  BY DEF SafeInv, CacheSound
<1> QED
  BY <1>1, SafeInit, SafeNext, PTL DEF Spec

-----------------------------------------------------------------------------
(***************************************************************************)
(* A valid entry is never overwritten.                                     *)
(***************************************************************************)
Kept(k) ==
    /\ entry'[k] = entry[k]
    /\ \A f \in {"meta", "payload"} : files'[entry[k]][f] \in {files[entry[k]][f], NoFile, Torn, Flipped}

LEMMA ValidHolds ==
    ASSUME SafeInv, NEW k \in Keys, ValidAt(k)
    PROVE  /\ entry[k] \in Dirs /\ Children(entry[k]) = {"meta", "payload"}
           /\ \A c \in Clients : me[c].temp # entry[k]
<1>1. entry[k] \in Dirs
  BY DEF SafeInv, TypeOK, ValidAt
<1>2. files[entry[k]].meta # NoFile /\ files[entry[k]].payload # NoFile
  BY NamesAssumption DEF ValidAt, IsValid
<1>3. \A c \in Clients : me[c].temp # entry[k]
  BY DEF SafeInv, Separate, ValidAt
<1> QED
  BY <1>1, <1>2, <1>3 DEF Children

\* What changes one file of another directory, or makes one unreadable.
LEMMA FileKept ==
    ASSUME NEW k \in Keys, entry' = entry, files \in [Dirs -> Files], entry[k] \in Dirs,
           NEW d \in Dirs, NEW f \in {"meta", "payload"}, NEW v,
           files' = [files EXCEPT ![d][f] = v],
           d # entry[k] \/ v \in {NoFile, Torn, Flipped}
    PROVE  Kept(k)
<1>1. files'[entry[k]] = IF entry[k] = d THEN [files[d] EXCEPT ![f] = v] ELSE files[entry[k]]
  OBVIOUS
<1>2. files[d] \in Files
  OBVIOUS
<1>3. CASE entry[k] = d
  <2>1. \A g \in {"meta", "payload"} : files'[d][g] = IF g = f THEN v ELSE files[d][g]
    BY <1>1, <1>2, <1>3 DEF Files
  <2> QED
    BY <1>3, <2>1 DEF Kept
<1> QED
  BY <1>1, <1>3 DEF Kept

LEMMA RemoveDirectoryKeeps ==
    ASSUME SafeInv, NEW c \in Clients, RemoveDirectory(c), NEW k \in Keys, ValidAt(k)
    PROVE  Kept(k)
<1>1. files' = files
  BY DEF RemoveDirectory
<1>2. Children(entry[k]) # {}
  BY ValidHolds
<1>3. entry[k] # None /\ entry \in [Keys -> Dirs \cup {None}]
  BY DEF ValidAt, SafeInv, TypeOK
<1>4. PICK d : d = Resolve(c, me[c].at)
  OBVIOUS
<1>5. \/ entry' = entry
      \/ /\ d # None /\ Children(d) = {}
         /\ entry' = [j \in Keys |-> IF j = me[c].at THEN None ELSE entry[j]]
  BY <1>4 DEF RemoveDirectory
<1>6. CASE entry' = entry
  BY <1>1, <1>6 DEF Kept
<1>7. CASE /\ d # None /\ Children(d) = {}
           /\ entry' = [j \in Keys |-> IF j = me[c].at THEN None ELSE entry[j]]
  <2>1. k # me[c].at
    BY <1>2, <1>4, <1>7 DEF Resolve
  <2>2. entry'[k] = entry[k]
    BY <1>7, <2>1
  <2> QED
    BY <1>1, <2>2 DEF Kept
<1> QED
  BY <1>5, <1>6, <1>7

LEMMA PublishKeeps ==
    ASSUME SafeInv, NEW c \in Clients, Publish(c), NEW k \in Keys, ValidAt(k)
    PROVE  Kept(k)
<1>1. files' = files
  BY DEF Publish
<1>2. Children(entry[k]) # {}
  BY ValidHolds
<1>3. entry[k] # None /\ entry \in [Keys -> Dirs \cup {None}]
  BY DEF ValidAt, SafeInv, TypeOK
<1>4. CASE ~CanRename(c)
  BY <1>1, <1>4 DEF Publish, Kept
<1>5. CASE CanRename(c)
  <2>1. entry' = [entry EXCEPT ![me[c].key] = me[c].temp]
    BY <1>5 DEF Publish
  <2>2. me[c].key # k
    BY <1>2, <1>3, <1>5 DEF CanRename, Resolve
  <2>3. entry'[k] = entry[k]
    BY <1>3, <2>1, <2>2
  <2> QED
    BY <1>1, <2>3 DEF Kept
<1> QED
  BY <1>4, <1>5

LEMMA MakeTempKeeps ==
    ASSUME SafeInv, NEW c \in Clients, MakeTemp(c), NEW k \in Keys, ValidAt(k)
    PROVE  Kept(k)
<1>1. entry' = entry /\ files \in [Dirs -> Files]
  BY DEF MakeTemp, SafeInv, TypeOK
<1>2. files' = files \/ \E d \in Dirs : Fresh(d) /\ files' = [files EXCEPT ![d] = NoFiles]
  BY DEF MakeTemp
<1>3. entry[k] \in Dirs
  BY ValidHolds
<1>4. files'[entry[k]] = files[entry[k]]
  BY <1>1, <1>2, <1>3 DEF Fresh
<1> QED
  BY <1>1, <1>4 DEF Kept

LEMMA WriteKeeps ==
    ASSUME SafeInv, NEW c \in Clients, NEW k \in Keys, ValidAt(k),
           WritePayload(c) \/ WriteMetadata(c) \/ WriteFails(c)
    PROVE  Kept(k)
<1>1. files \in [Dirs -> Files] /\ entry[k] \in Dirs /\ me[c].temp # entry[k] /\ temps \subseteq Dirs
  BY ValidHolds DEF SafeInv, TypeOK
<1>2. /\ entry' = entry
      /\ \/ files' = files
         \/ /\ me[c].temp \in temps
            /\ \E f \in {"meta", "payload"}, v \in {me[c].text, Torn} :
                  files' = [files EXCEPT ![me[c].temp][f] = v]
  <2>1. CASE WritePayload(c)
    BY <2>1 DEF WritePayload, WriteFile
  <2>2. CASE WriteMetadata(c)
    BY <2>2 DEF WriteMetadata, WriteFile
  <2>3. CASE WriteFails(c)
    <3>1. PICK w \in {<<"wrPayload", "payload">>, <<"wrMeta", "meta">>} :
              files' = [files EXCEPT ![me[c].temp][w[2]] = Torn]
      BY <2>3 DEF WriteFails
    <3>2. w[2] \in {"meta", "payload"}
      OBVIOUS
    <3>3. me[c].temp \in temps /\ entry' = entry
      BY <2>3 DEF WriteFails
    <3> QED
      BY <3>1, <3>2, <3>3
  <2> QED
    BY <2>1, <2>2, <2>3
<1>3. CASE files' = files
  BY <1>2, <1>3 DEF Kept
<1>4. CASE files' # files
  <2>1. PICK f \in {"meta", "payload"}, v \in {me[c].text, Torn} :
            files' = [files EXCEPT ![me[c].temp][f] = v]
    BY <1>2, <1>4
  <2>2. me[c].temp \in Dirs
    BY <1>1, <1>2, <1>4
  <2> QED
    BY <1>1, <1>2, <2>1, <2>2, FileKept
<1> QED
  BY <1>3, <1>4

LEMMA RemoveChildKeeps ==
    ASSUME SafeInv, NEW c \in Clients, RemoveChild(c), NEW k \in Keys, ValidAt(k)
    PROVE  Kept(k)
<1>1. files \in [Dirs -> Files] /\ entry[k] \in Dirs
  BY ValidHolds DEF SafeInv, TypeOK
<1>2. /\ entry' = entry
      /\ \/ files' = files
         \/ \E f \in me[c].kids : files' = [files EXCEPT ![me[c].dir][f] = NoFile]
  BY DEF RemoveChild
<1>3. CASE files' = files
  BY <1>2, <1>3 DEF Kept
<1>4. CASE files' # files
  <2>1. PICK f \in me[c].kids : files' = [files EXCEPT ![me[c].dir][f] = NoFile]
    BY <1>2, <1>4
  <2>2. me[c].kids \subseteq {"meta", "payload"} /\ me[c].dir # None /\ me[c].dir \in Dirs \cup {None}
    <3>1. me[c] \in Client /\ Shape(me[c]) /\ me[c].pc = "rmKids"
      BY Here DEF RemoveChild, At
    <3> QED
      BY <3>1 DEF Client, Shape
  <2> QED
    BY <1>1, <1>2, <2>1, <2>2, FileKept
<1> QED
  BY <1>3, <1>4

LEMMA DamageKeeps ==
    ASSUME SafeInv, NEW j \in Keys, Damage(j), NEW k \in Keys, ValidAt(k)
    PROVE  Kept(k)
<1>1. files \in [Dirs -> Files] /\ entry[k] \in Dirs /\ entry[j] \in Dirs
  BY ValidHolds DEF SafeInv, TypeOK, Damage
<1>2. entry' = entry
  BY DEF Damage
<1>3. PICK f \in Children(entry[j]) :
          \E v \in {Torn, NoFile} \cup (IF f = "payload" THEN {Flipped} ELSE {}) :
             files' = [files EXCEPT ![entry[j]][f] = v]
  BY DEF Damage
<1>4. f \in {"meta", "payload"}
  BY DEF Children
<1>5. PICK v \in {Torn, NoFile, Flipped} : files' = [files EXCEPT ![entry[j]][f] = v]
  BY <1>3
<1> QED
  BY <1>1, <1>2, <1>4, <1>5, FileKept

LEMMA NextKeeps == ASSUME SafeInv, [Next]_vars, NEW k \in Keys, ValidAt(k) PROVE Kept(k)
<1>1. CASE entry' = entry /\ files' = files
  BY <1>1 DEF Kept
<1>2. CASE \E c \in Clients : Work(c) \/ WriteFails(c) \/ Crash(c) \/ Purge(c)
  <2> PICK c \in Clients : Work(c) \/ WriteFails(c) \/ Crash(c) \/ Purge(c)
    BY <1>2
  <2>1. CASE Call(c) \/ Return(c) \/ Crash(c) \/ Purge(c)
    BY <1>1, <2>1 DEF Call, Return, Crash, Purge, disk
  <2>2. CASE Read(c)
    BY <1>1, <2>2 DEF Read, ValidateRoot, OpenShard, StatEntry, OpenEntry, ReadMetadata, ReadPayload, disk
  <2>3. CASE Remove(c)
    <3>1. CASE RemoveOpen(c) \/ RemoveEmptyShard(c)
      BY <1>1, <3>1 DEF RemoveOpen, RemoveEmptyShard, disk
    <3> QED
      BY <2>3, <3>1, RemoveChildKeeps, RemoveDirectoryKeeps DEF Remove
  <2>4. CASE Store(c)
    <3>1. CASE EnsureOwnedRoot(c) \/ CreateMarker(c) \/ WriteMarker(c) \/ MakeShard(c) \/ AcquireShard(c)
      BY <1>1, <3>1 DEF EnsureOwnedRoot, CreateMarker, WriteMarker, MakeShard, AcquireShard, disk
    <3> QED
      BY <2>4, <3>1, MakeTempKeeps, WriteKeeps, PublishKeeps DEF Store
  <2>5. CASE PurgeStep(c)
    BY <1>1, <2>5 DEF PurgeStep, PurgeRoot, PurgeList, PurgeEntry, PurgeShard, disk
  <2> QED
    BY <2>1, <2>2, <2>3, <2>4, <2>5, WriteKeeps DEF Work
<1>3. CASE \E c \in Clients : \E j \in Keys : Generate(c, j) \/ Put(c, j)
  BY <1>1, <1>3 DEF Generate, Put, disk
<1>4. CASE \E j \in Keys : Damage(j)
  BY <1>4, DamageKeeps
<1>5. CASE UNCHANGED vars
  BY <1>1, <1>5 DEF vars
<1> QED
  BY <1>2, <1>3, <1>4, <1>5 DEF Next

\* No step of any process puts another directory in the place of a valid entry or other bytes in
\* its files: it can only be taken apart, or damaged.
THEOREM CacheEntriesImmutable == Spec => EntriesImmutable
<1>1. SafeInv /\ [Next]_vars =>
         (\A k \in Keys : ValidAt(k) =>
            /\ entry'[k] = entry[k]
            /\ \A f \in {"meta", "payload"} :
                 files'[entry[k]][f] \in {files[entry[k]][f], NoFile, Torn, Flipped})
  BY NextKeeps DEF Kept
<1>2. SafeInv /\ [Next]_vars =>
         [\A k \in Keys : ValidAt(k) =>
            /\ entry'[k] = entry[k]
            /\ \A f \in {"meta", "payload"} :
                 files'[entry[k]][f] \in {files[entry[k]][f], NoFile, Torn, Flipped}]_vars
  BY <1>1
<1> QED
  BY <1>2, SafeInit, SafeNext, PTL DEF Spec, EntriesImmutable

-----------------------------------------------------------------------------
(***************************************************************************)
(* The first publication under a key is everybody's answer.                *)
(***************************************************************************)
\* What a step of c leaves to the others, as long as nothing is disturbed.
Spares(c) ==
    /\ marker' = marker /\ (shard => shard')
    /\ \A k \in Keys : entry[k] # None => entry'[k] = entry[k] /\ files'[entry[k]] = files[entry[k]]
    /\ \A b \in Clients : b # c =>
          /\ me'[b] = me[b] /\ mem'[b] = mem[b]
          /\ me[b].temp # None => /\ me[b].temp \in temps => me[b].temp \in temps'
                                  /\ files'[me[b].temp] = files[me[b].temp]

CalmNow == SafeInv /\ Calm /\ CalmInv

LEMMA CalmHere ==
    ASSUME CalmNow, NEW c \in Clients
    PROVE  /\ CalmAt(me[c], mem[c]) /\ me[c] \in Client /\ Shape(me[c]) /\ Linked(me[c])
           /\ mem[c] \in Seq(Pairs) /\ Dictionary(mem[c]) /\ Len(mem[c]) <= MemCap
           /\ me[c].pc # "idle" => me[c].op = "generate" /\ me[c].key \in Keys
           /\ me[c].pc = "idle" => me[c] = Idle
<1>1. /\ CalmAt(me[c], mem[c]) /\ me[c] \in Client /\ Shape(me[c]) /\ Linked(me[c])
      /\ mem[c] \in Seq(Pairs) /\ Dictionary(mem[c]) /\ Len(mem[c]) <= MemCap
  BY DEF CalmNow, CalmInv, SafeInv, TypeOK, Pairs
<1> QED
  BY <1>1 DEF Shape, CalmAt

LEMMA EntryHere ==
    ASSUME CalmNow, NEW k \in Keys
    PROVE  /\ entry[k] \in Dirs \cup {None}
           /\ entry[k] # None => shard /\ Whole(entry[k]) /\ Children(entry[k]) # {}
           /\ \A c \in Clients : entry[k] # None => entry[k] # me[c].temp
<1>1. entry[k] \in Dirs \cup {None} /\ \A c \in Clients : entry[k] # None => entry[k] # me[c].temp
  BY DEF CalmNow, SafeInv, TypeOK, Separate
<1>2. entry[k] # None => shard /\ Whole(entry[k])
  BY DEF CalmNow, CalmInv, EntriesWhole
<1>3. Whole(entry[k]) => Children(entry[k]) # {}
  BY TextsAreTold DEF Whole, Children
<1> QED
  BY <1>1, <1>2, <1>3

LEMMA WonStays ==
    ASSUME NEW c \in Clients, Spares(c), NEW p \in Pairs, Won(p)
    PROVE  Won(p)'
<1>1. PICK k : k = p[1]
  OBVIOUS
<1>2. k \in Keys /\ entry[k] # None /\ files[entry[k]].meta = p[2]
  BY <1>1 DEF Pairs, Won
<1>3. entry'[k] = entry[k] /\ files'[entry[k]] = files[entry[k]]
  BY <1>2 DEF Spares
<1> QED
  BY <1>1, <1>2, <1>3 DEF Won

\* The others are left where they were.
LEMMA OthersCalm ==
    ASSUME CalmNow, NEW c \in Clients, Spares(c), NEW b \in Clients, b # c
    PROVE  CalmAt(me[b], mem[b])'
<1>1. PICK r, m : r = me[b] /\ m = mem[b]
  OBVIOUS
<1>2. me'[b] = r /\ mem'[b] = m
  BY <1>1 DEF Spares
<1>3. CalmAt(r, m) /\ Shape(r) /\ m \in Seq(Pairs) /\ (r.pc # "idle" => r.key \in Keys)
  BY <1>1, CalmHere
<1>4. r.temp # None => (r.temp \in temps => r.temp \in temps') /\ files'[r.temp] = files[r.temp]
  BY <1>1 DEF Spares
<1>5. r.pc # "idle" /\ entry[r.key] # None =>
         entry'[r.key] = entry[r.key] /\ files'[entry[r.key]] = files[entry[r.key]]
  BY <1>3 DEF Spares
<1>6. shard => shard'
  BY DEF Spares
<1>7. /\ r.pc \in Removing => r.task = "cleanup" /\ r.fate = "exists" /\ entry'[r.key] # None
      /\ r.pc \in Reading => entry'[r.key] # None
      /\ r.pc \in {"meta", "payload"} => r.dir = entry'[r.key]
      /\ r.pc = "payload" => r.sum = files'[r.dir].meta
  BY <1>3, <1>5 DEF CalmAt, Reading, Removing
<1>8. r.task = "again" => entry'[r.key] # None
  <2>1. r.task = "again" => r.pc # "idle"
    BY <1>3 DEF Shape, Idle
  <2> QED
    BY <1>3, <1>5, <2>1 DEF CalmAt
<1>9. r.pc = "return" => Won(<<r.key, r.text>>)'
  <2> SUFFICES ASSUME r.pc = "return" PROVE Won(<<r.key, r.text>>)'
    OBVIOUS
  <2>1. <<r.key, r.text>> \in Pairs /\ Won(<<r.key, r.text>>)
    BY <1>3 DEF Shape, CalmAt, Pairs
  <2> QED
    BY <2>1, WonStays
<1>10. \A i \in 1 .. Len(m) : Won(m[i])' \/ (r.task \notin {"none", "first"} /\ m[i][1] = r.key)
  <2> SUFFICES ASSUME NEW i \in 1 .. Len(m), ~(r.task \notin {"none", "first"} /\ m[i][1] = r.key)
               PROVE  Won(m[i])'
    OBVIOUS
  <2>1. Won(m[i]) /\ m[i] \in Pairs
    BY <1>3 DEF CalmAt
  <2> QED
    BY <2>1, WonStays
<1>11. /\ r.op # "put" /\ r.pc \notin {"mkMarker", "wrMarker", "rmShard"}
       /\ r.task \notin {"discard", "purge"}
       /\ r.pc \in {"stat", "mkTemp"} \cup Writing \cup Reading \cup Removing => r.fd = "live"
       /\ r.pc = "opShard" \/ r.fd = "live" => shard'
       /\ r.temp # None => r.temp \in temps'
  BY <1>3, <1>4, <1>6 DEF CalmAt
<1>12. /\ r.pc \in {"wrMeta", "publish"} => files'[r.temp].payload = r.text
       /\ r.pc = "publish" => files'[r.temp].meta = r.text
  <2>1. r.pc \in {"wrMeta", "publish"} => r.temp # None
    BY <1>3 DEF Shape, Writing
  <2> QED
    BY <1>3, <1>4, <2>1 DEF CalmAt
<1>13. CalmAt(r, m)'
  BY <1>7, <1>8, <1>9, <1>10, <1>11, <1>12 DEF CalmAt
<1> QED
  BY <1>2, <1>13 DEF CalmAt, Won

\* A step of one client: what is left to show.
LEMMA CalmStep ==
    ASSUME CalmNow, NEW c \in Clients, Spares(c), NEW s, NEW n, me'[c] = s, mem'[c] = n, CalmAt(s, n)',
           \A k \in Keys : entry'[k] # None => entry'[k] = entry[k] \/ (shard /\ Whole(entry[k]))',
           \A p \in answers' : p \in answers \/ Won(p)'
    PROVE  CalmInv'
<1>1. marker' = "ok"
  BY DEF CalmNow, CalmInv, Spares
<1>2. EntriesWhole'
  <2> SUFFICES ASSUME NEW k \in Keys, entry'[k] # None PROVE (shard /\ Whole(entry[k]))'
    BY DEF EntriesWhole
  <2>1. CASE entry'[k] = entry[k]
    <3>1. shard /\ Whole(entry[k]) /\ files'[entry[k]] = files[entry[k]] /\ shard'
      BY <2>1, EntryHere DEF Spares
    <3> QED
      BY <2>1, <3>1 DEF Whole
  <2>2. CASE entry'[k] # entry[k]
    BY <2>2
  <2> QED
    BY <2>1, <2>2
<1>3. \A p \in answers' : Won(p)'
  <2> SUFFICES ASSUME NEW p \in answers' PROVE Won(p)'
    OBVIOUS
  <2>1. p \in answers => p \in Pairs /\ Won(p)
    BY DEF CalmNow, CalmInv, SafeInv, TypeOK, Pairs
  <2> QED
    BY <2>1, WonStays
<1>4. ASSUME NEW b \in Clients PROVE CalmAt(me[b], mem[b])'
  <2>1. CASE b = c
    BY <2>1 DEF CalmAt, Won
  <2>2. CASE b # c
    BY <2>2, OthersCalm
  <2> QED
    BY <2>1, <2>2
<1> QED
  BY <1>1, <1>2, <1>3, <1>4 DEF CalmInv, Won

\* A step that leaves the disk and what was said alone.
LEMMA CalmGo ==
    ASSUME CalmNow, NEW c \in Clients, NEW s, me' = [me EXCEPT ![c] = s],
           UNCHANGED <<disk, history>>, CalmAt(s, mem[c])
    PROVE  CalmInv'
<1>1. PICK n : n = mem[c]
  OBVIOUS
<1>2. /\ marker' = marker /\ shard' = shard /\ entry' = entry /\ temps' = temps /\ files' = files
      /\ mem' = mem /\ answers' = answers /\ me \in [Clients -> Client]
  BY DEF disk, history, CalmNow, SafeInv, TypeOK
<1>3. me'[c] = s /\ mem'[c] = n /\ Spares(c)
  BY <1>1, <1>2 DEF Spares
<1>4. CalmAt(s, n)'
  BY <1>1, <1>2 DEF CalmAt, Won
<1> QED
  BY <1>2, <1>3, <1>4, CalmStep

LEMMA OnwardCache ==
    ASSUME CalmNow, NEW c \in Clients, NEW s, s.key = me[c].key,
           s.task = me[c].task \/ s.task \notin {"none", "first"}
    PROVE  \A i \in 1 .. Len(mem[c]) :
              Won(mem[c][i]) \/ (s.task \notin {"none", "first"} /\ mem[c][i][1] = s.key)
<1>1. CalmAt(me[c], mem[c])
  BY CalmHere
<1> QED
  BY <1>1 DEF CalmAt

\* A client between two parts of its call holds nothing.
LEMMA ClosedCalm ==
    ASSUME CalmNow, NEW c \in Clients, NEW s, s.op = "generate", s.key = me[c].key,
           s.temp = None, s.fd = "none", s.task \in Lookups,
           s.task = me[c].task \/ s.task \in {"pre", "again"},
           s.pc \in {"root", "shard", "own", "call", "return"},
           s.task = "again" => entry[s.key] # None,
           s.pc = "return" => Won(<<s.key, s.text>>)
    PROVE  CalmAt(s, mem[c])
<1>1. \A i \in 1 .. Len(mem[c]) :
         Won(mem[c][i]) \/ (s.task \notin {"none", "first"} /\ mem[c][i][1] = s.key)
  BY OnwardCache
<1> QED
  BY <1>1 DEF CalmAt, Lookups, Writing, Reading, Removing

\* A client that goes on with its handle on the shard open.
LEMMA OpenCalm ==
    ASSUME CalmNow, NEW c \in Clients, NEW s, s.op = "generate", s.key = me[c].key,
           s.task \in Lookups \cup {"collide", "cleanup"},
           s.task = me[c].task \/ s.task \in {"collide", "cleanup"},
           s.fd = "live", shard, s.temp # None => s.temp \in temps,
           s.pc \in {"stat", "mkTemp"} \cup Reading \cup Removing,
           s.pc \in Removing => s.task = "cleanup" /\ s.fate = "exists",
           s.pc \in Reading \cup Removing \/ s.task = "again" => entry[s.key] # None,
           s.pc \in {"meta", "payload"} => s.dir = entry[s.key],
           s.pc = "payload" => s.sum = files[s.dir].meta
    PROVE  CalmAt(s, mem[c])
<1>1. \A i \in 1 .. Len(mem[c]) :
         Won(mem[c][i]) \/ (s.task \notin {"none", "first"} /\ mem[c][i][1] = s.key)
  BY OnwardCache
<1> QED
  BY <1>1 DEF CalmAt, Lookups, Writing, Reading, Removing

LEMMA MissedCalm ==
    ASSUME CalmNow, NEW c \in Clients, me[c].pc # "idle", me[c].task \in {"first", "pre"}
    PROVE  CalmAt(Missed(me[c]), mem[c])
<1>1. PICK s : s = Missed(me[c])
  OBVIOUS
<1>2. me[c] \in Client /\ Shape(me[c]) /\ me[c].op = "generate"
  BY CalmHere
<1>3. /\ s.op = me[c].op /\ s.key = me[c].key /\ s.task = me[c].task /\ s.temp = None /\ s.fd = "none"
      /\ s.pc = IF me[c].task = "pre" THEN "own" ELSE IF me[c].task = "again" THEN "return" ELSE "call"
  BY <1>1, <1>2, MissedLeaves DEF Lookups
<1>4. CalmAt(s, mem[c])
  BY <1>2, <1>3, ClosedCalm DEF Lookups
<1> QED
  BY <1>1, <1>4

LEMMA ValidateRootCalm == ASSUME CalmNow, NEW c \in Clients, ValidateRoot(c) PROVE CalmInv'
<1>1. PICK r, s : r = me[c] /\ s = [r EXCEPT !.pc = "shard"]
  OBVIOUS
<1>2. me' = [me EXCEPT ![c] = s] /\ UNCHANGED <<disk, history>> /\ r.pc = "root"
  BY <1>1 DEF ValidateRoot, Go, At, CalmNow, CalmInv
<1>3. /\ r \in Client /\ Shape(r) /\ r.op = "generate" /\ r.temp = None
      /\ r.task \in Lookups /\ (r.task = "again" => entry[r.key] # None)
      /\ CalmAt(r, mem[c])
  <2>1. r \in Client /\ Shape(r) /\ r.op = "generate" /\ CalmAt(r, mem[c])
    BY <1>1, <1>2, CalmHere
  <2>2. r.temp = None
    BY <1>2, <2>1 DEF Shape, Reading, Writing, Removing
  <2> QED
    BY <1>2, <2>1, <2>2 DEF Shape, CalmAt
<1>4. /\ s.pc = "shard" /\ s.op = r.op /\ s.key = r.key /\ s.task = r.task /\ s.temp = None
      /\ s.text = r.text /\ s.fd = r.fd
  BY <1>1, <1>3, ClientFields
<1>5. \A i \in 1 .. Len(mem[c]) :
         Won(mem[c][i]) \/ (s.task \notin {"none", "first"} /\ mem[c][i][1] = s.key)
  BY <1>1, <1>4, OnwardCache
<1>6. CalmAt(s, mem[c])
  BY <1>3, <1>4, <1>5 DEF CalmAt, Lookups, Writing, Reading, Removing
<1> QED
  BY <1>2, <1>6, CalmGo

LEMMA OpenShardCalm == ASSUME CalmNow, NEW c \in Clients, OpenShard(c) PROVE CalmInv'
<1>1. PICK r : r = me[c]
  OBVIOUS
<1>2. r.pc = "shard" /\ UNCHANGED <<disk, history>>
  BY <1>1 DEF OpenShard, At
<1>3. /\ r \in Client /\ Shape(r) /\ r.op = "generate" /\ r.key \in Keys /\ r.temp = None
      /\ r.task \in Lookups /\ (r.task = "again" => entry[r.key] # None)
  <2>1. r \in Client /\ Shape(r) /\ r.op = "generate" /\ CalmAt(r, mem[c]) /\ r.key \in Keys
    BY <1>1, <1>2, CalmHere
  <2>2. r.temp = None
    BY <1>2, <2>1 DEF Shape, Reading, Writing, Removing
  <2> QED
    BY <1>2, <2>1, <2>2 DEF Shape, CalmAt
<1>4. r.task # "discard"
  BY <1>3 DEF Lookups
<1>5. CASE shard
  <2>1. PICK s : s = [r EXCEPT !.fd = "live", !.pc = "stat"]
    OBVIOUS
  <2>2. me' = [me EXCEPT ![c] = s]
    BY <1>1, <1>4, <1>5, <2>1 DEF OpenShard
  <2>3. /\ s.pc = "stat" /\ s.op = r.op /\ s.key = r.key /\ s.task = r.task /\ s.temp = None
        /\ s.fd = "live"
    BY <1>3, <2>1, ClientFields
  <2>4. CalmAt(s, mem[c])
    BY <1>1, <1>3, <1>5, <2>3, OpenCalm DEF Lookups, Writing, Reading, Removing
  <2> QED
    BY <1>2, <2>2, <2>4, CalmGo
<1>6. CASE ~shard
  <2>1. r.task # "again"
    BY <1>3, <1>6, EntryHere
  <2>2. me' = [me EXCEPT ![c] = Missed(me[c])]
    BY <1>1, <1>4, <1>6 DEF OpenShard, Become
  <2>3. CalmAt(Missed(me[c]), mem[c])
    BY <1>1, <1>2, <1>3, <2>1, MissedCalm DEF Lookups
  <2> QED
    BY <1>2, <2>2, <2>3, CalmGo
<1> QED
  BY <1>5, <1>6

\* What a client at work under its handle on the shard sees.
LEMMA LiveHere ==
    ASSUME CalmNow, NEW c \in Clients,
           me[c].pc \in {"stat", "mkTemp"} \cup Writing \cup Reading \cup Removing
    PROVE  /\ me[c] \in Client /\ Shape(me[c]) /\ Linked(me[c]) /\ CalmAt(me[c], mem[c])
           /\ me[c].op = "generate" /\ me[c].key \in Keys
           /\ me[c].fd = "live" /\ shard /\ Resolve(c, me[c].key) = entry[me[c].key]
           /\ me[c].temp # None => /\ me[c].temp \in Dirs /\ me[c].temp \in temps
                                   /\ Resolve(c, me[c].temp) = me[c].temp
<1>1. me[c].pc # "idle"
  BY DEF Writing, Reading, Removing
<1>2. /\ me[c] \in Client /\ Shape(me[c]) /\ Linked(me[c]) /\ CalmAt(me[c], mem[c])
      /\ me[c].op = "generate" /\ me[c].key \in Keys
  BY <1>1, CalmHere
<1>3. me[c].fd = "live" /\ shard /\ (me[c].temp # None => me[c].temp \in temps)
  BY <1>2 DEF CalmAt
<1>4. me[c].temp # None => me[c].temp \in Dirs /\ me[c].temp \notin Keys
  BY <1>2, NamesAssumption DEF Client
<1> QED
  BY <1>2, <1>3, <1>4 DEF Resolve

LEMMA StatEntryCalm == ASSUME CalmNow, NEW c \in Clients, StatEntry(c) PROVE CalmInv'
<1>1. PICK r, s : r = me[c] /\ s = [r EXCEPT !.pc = "open"]
  OBVIOUS
<1>2. r.pc = "stat" /\ UNCHANGED <<disk, history>>
  BY <1>1 DEF StatEntry, At
<1>3. /\ r \in Client /\ Shape(r) /\ CalmAt(r, mem[c]) /\ r.op = "generate" /\ r.key \in Keys
      /\ r.fd = "live" /\ shard /\ Resolve(c, r.key) = entry[r.key]
  BY <1>1, <1>2, LiveHere
<1>4. r.task \in Lookups /\ (r.task = "again" => entry[r.key] # None) /\ r.temp = None
  BY <1>2, <1>3 DEF Shape, CalmAt, Reading, Writing, Removing
<1>5. CASE entry[r.key] = None
  <2>1. me' = [me EXCEPT ![c] = Missed(me[c])]
    BY <1>1, <1>3, <1>5 DEF StatEntry, Become
  <2>2. CalmAt(Missed(me[c]), mem[c])
    BY <1>1, <1>2, <1>4, <1>5, MissedCalm DEF Lookups
  <2> QED
    BY <1>2, <2>1, <2>2, CalmGo
<1>6. CASE entry[r.key] # None
  <2>1. me' = [me EXCEPT ![c] = s]
    BY <1>1, <1>3, <1>6 DEF StatEntry, Go
  <2>2. /\ s.pc = "open" /\ s.op = r.op /\ s.key = r.key /\ s.task = r.task /\ s.temp = r.temp
        /\ s.fd = r.fd
    BY <1>1, <1>3, ClientFields
  <2>3. CalmAt(s, mem[c])
    BY <1>1, <1>3, <1>4, <1>6, <2>2, OpenCalm DEF Reading, Removing
  <2> QED
    BY <1>2, <2>1, <2>3, CalmGo
<1> QED
  BY <1>5, <1>6

\* What a client that reads an entry sees.
LEMMA ReadingHere ==
    ASSUME CalmNow, NEW c \in Clients, me[c].pc \in Reading
    PROVE  /\ me[c].task \in Lookups \cup {"collide"} /\ entry[me[c].key] # None
           /\ Whole(entry[me[c].key]) /\ entry[me[c].key] \in Dirs
           /\ me[c].task = "collide" => me[c].temp # None
           /\ me[c].task # "collide" => me[c].temp = None
           /\ me[c].task \in {"pre", "again", "collide"} => me[c].text \in Texts
<1>1. CalmAt(me[c], mem[c]) /\ Shape(me[c]) /\ me[c].key \in Keys
  BY LiveHere
<1>2. /\ me[c].task \in Lookups \cup {"collide"} /\ entry[me[c].key] # None
      /\ me[c].task = "collide" => me[c].temp # None
      /\ me[c].task # "collide" => me[c].temp = None
  BY <1>1 DEF Shape, CalmAt, Reading, Writing, Removing
<1>3. me[c].task \in {"pre", "again", "collide"} => me[c].text \in Texts
  BY <1>1, <1>2 DEF Shape, CalmAt, Reading
<1> QED
  BY <1>1, <1>2, <1>3, EntryHere

LEMMA OpenEntryCalm == ASSUME CalmNow, NEW c \in Clients, OpenEntry(c) PROVE CalmInv'
<1>1. PICK r, d : r = me[c] /\ d = entry[me[c].key]
  OBVIOUS
<1>2. r.pc \in Reading /\ r.pc = "open" /\ UNCHANGED <<disk, history>>
  BY <1>1 DEF OpenEntry, At, Reading
<1>3. /\ r \in Client /\ r.op = "generate" /\ r.key \in Keys /\ r.fd = "live" /\ shard
      /\ Resolve(c, r.key) = d /\ (r.temp # None => r.temp \in temps)
      /\ r.task \in Lookups \cup {"collide"} /\ d # None /\ d \in Dirs
  BY <1>1, <1>2, LiveHere, ReadingHere
<1>4. PICK s : s = [r EXCEPT !.dir = d, !.pc = "meta"]
  OBVIOUS
<1>5. me' = [me EXCEPT ![c] = s]
  BY <1>1, <1>3, <1>4 DEF OpenEntry
<1>6. /\ s.pc = "meta" /\ s.op = r.op /\ s.key = r.key /\ s.task = r.task /\ s.temp = r.temp
      /\ s.fd = r.fd /\ s.dir = d
  BY <1>3, <1>4, ClientFields
<1>7. CalmAt(s, mem[c])
  BY <1>1, <1>3, <1>6, OpenCalm DEF Reading, Removing
<1> QED
  BY <1>2, <1>5, <1>7, CalmGo

LEMMA ReadMetadataCalm == ASSUME CalmNow, NEW c \in Clients, ReadMetadata(c) PROVE CalmInv'
<1>1. PICK r, p : r = me[c] /\ p = files[me[c].dir].meta
  OBVIOUS
<1>2. r.pc \in Reading /\ r.pc = "meta" /\ UNCHANGED <<disk, history>>
  BY <1>1 DEF ReadMetadata, At, Reading
<1>3. /\ r \in Client /\ r.op = "generate" /\ r.key \in Keys /\ r.fd = "live" /\ shard
      /\ (r.temp # None => r.temp \in temps)
      /\ r.task \in Lookups \cup {"collide"} /\ entry[r.key] # None /\ Whole(entry[r.key])
      /\ CalmAt(r, mem[c])
  BY <1>1, <1>2, LiveHere, ReadingHere
<1>4. r.dir = entry[r.key]
  BY <1>2, <1>3 DEF CalmAt
<1>5. p \in Payloads
  BY <1>1, <1>3, <1>4 DEF Whole, Payloads
<1>6. PICK s : s = [r EXCEPT !.sum = p, !.pc = "payload"]
  OBVIOUS
<1>7. me' = [me EXCEPT ![c] = s]
  BY <1>1, <1>5, <1>6 DEF ReadMetadata
<1>8. /\ s.pc = "payload" /\ s.op = r.op /\ s.key = r.key /\ s.task = r.task /\ s.temp = r.temp
      /\ s.fd = r.fd /\ s.dir = r.dir /\ s.sum = p
  BY <1>3, <1>6, ClientFields
<1>9. CalmAt(s, mem[c])
  BY <1>1, <1>3, <1>4, <1>8, OpenCalm DEF Reading, Removing
<1> QED
  BY <1>2, <1>7, <1>9, CalmGo

LEMMA ReadPayloadCalm == ASSUME CalmNow, NEW c \in Clients, ReadPayload(c) PROVE CalmInv'
<1>1. PICK r, p : r = me[c] /\ p = me[c].sum
  OBVIOUS
<1>2. r.pc \in Reading /\ r.pc = "payload" /\ UNCHANGED <<disk, history>>
  BY <1>1 DEF ReadPayload, At, Reading
<1>3. /\ r \in Client /\ r.op = "generate" /\ r.key \in Keys /\ r.fd = "live" /\ shard
      /\ (r.temp # None => r.temp \in temps)
      /\ r.task \in Lookups \cup {"collide"} /\ entry[r.key] # None /\ Whole(entry[r.key])
      /\ CalmAt(r, mem[c])
      /\ r.task = "collide" => r.temp # None
      /\ r.task \in {"pre", "again", "collide"} => r.text \in Texts
  BY <1>1, <1>2, LiveHere, ReadingHere
<1>4. r.dir = entry[r.key] /\ p = files[r.dir].meta
  BY <1>1, <1>2, <1>3 DEF CalmAt
<1>5. p \in Texts /\ files[r.dir].payload = p /\ Won(<<r.key, p>>)
  BY <1>3, <1>4 DEF Whole, Won
<1>6. PICK s : s = Found(r, p)
  OBVIOUS
<1>7. me' = [me EXCEPT ![c] = s] /\ Decodes(p)
  BY <1>1, <1>5, <1>6 DEF ReadPayload, Become, Decodes
<1>8. CASE r.task = "collide"
  <2>1. s = Cleanup(r, "exists")
    BY <1>6, <1>8 DEF Found
  <2>2. /\ s.pc = "rmOpen" /\ s.op = r.op /\ s.key = r.key /\ s.task = "cleanup" /\ s.temp = r.temp
        /\ s.fd = r.fd /\ s.fate = "exists"
    BY <1>3, <2>1, ClientFields DEF Cleanup
  <2>3. CalmAt(s, mem[c])
    BY <1>1, <1>3, <2>2, OpenCalm DEF Reading, Removing
  <2> QED
    BY <1>2, <1>7, <2>3, CalmGo
<1>9. CASE r.task = "pre"
  <2>1. s = Lookup(r, "again")
    BY <1>3, <1>6, <1>9 DEF Found, Stored
  <2>2. /\ s.pc = "root" /\ s.op = r.op /\ s.key = r.key /\ s.task = "again" /\ s.temp = None
        /\ s.fd = "none"
    <3>1. PICK q : q = Close(r)
      OBVIOUS
    <3>2. q \in Client /\ q.op = r.op /\ q.key = r.key /\ q.temp = None /\ q.fd = "none"
      BY <1>3, <3>1, CloseKeeps
    <3> QED
      BY <2>1, <3>1, <3>2, ClientFields DEF Lookup
  <2>3. CalmAt(s, mem[c])
    BY <1>1, <1>3, <2>2, ClosedCalm DEF Lookups
  <2> QED
    BY <1>2, <1>7, <2>3, CalmGo
<1>10. CASE r.task \in {"first", "again"}
  <2>1. s = [Close(r) EXCEPT !.pc = "return", !.text = p]
    BY <1>6, <1>7, <1>10 DEF Found
  <2>2. /\ s.pc = "return" /\ s.op = r.op /\ s.key = r.key /\ s.task = r.task /\ s.temp = None
        /\ s.fd = "none" /\ s.text = p
    <3>1. PICK q : q = Close(r)
      OBVIOUS
    <3>2. /\ q \in Client /\ q.op = r.op /\ q.key = r.key /\ q.temp = None /\ q.fd = "none"
          /\ q.task = r.task
      BY <1>3, <3>1, CloseKeeps
    <3> QED
      BY <2>1, <3>1, <3>2, ClientFields
  <2>3. CalmAt(s, mem[c])
    BY <1>1, <1>3, <1>5, <1>10, <2>2, ClosedCalm DEF Lookups
  <2> QED
    BY <1>2, <1>7, <2>3, CalmGo
<1> QED
  BY <1>3, <1>8, <1>9, <1>10 DEF Lookups

\* The loser of a publication removes its own temporary directory.
LEMMA RemovingHere ==
    ASSUME CalmNow, NEW c \in Clients, me[c].pc \in Removing
    PROVE  /\ me[c].task = "cleanup" /\ me[c].fate = "exists" /\ me[c].text \in Texts
           /\ entry[me[c].key] # None
           /\ me[c].temp # None /\ me[c].at = me[c].temp /\ Resolve(c, me[c].at) = me[c].temp
           /\ me[c].pc = "rmKids" => me[c].dir = me[c].temp /\ me[c].kids = Children(me[c].temp)
<1>1. CalmAt(me[c], mem[c]) /\ Shape(me[c]) /\ Linked(me[c]) /\ me[c].op = "generate"
  BY LiveHere
<1>2. me[c].task = "cleanup" /\ me[c].fate = "exists" /\ entry[me[c].key] # None
  BY <1>1 DEF CalmAt
<1>3. me[c].temp # None /\ me[c].at = me[c].temp /\ (me[c].pc = "rmKids" => me[c].dir = me[c].temp)
  BY <1>1, <1>2 DEF Shape
<1>4. me[c].text \in Texts
  BY <1>1, <1>2 DEF Shape, Removing
<1>5. NoPurge
  BY DEF CalmNow, Calm, NoPurge
<1> QED
  BY <1>1, <1>2, <1>3, <1>4, <1>5, LiveHere DEF Linked

LEMMA RemoveOpenCalm == ASSUME CalmNow, NEW c \in Clients, RemoveOpen(c) PROVE CalmInv'
<1>1. PICK r, d : r = me[c] /\ d = me[c].temp
  OBVIOUS
<1>2. r.pc \in Removing /\ UNCHANGED <<disk, history>>
  BY <1>1 DEF RemoveOpen, At, Removing
<1>3. /\ r \in Client /\ r.op = "generate" /\ r.key \in Keys /\ r.fd = "live" /\ shard
      /\ d \in temps /\ d \in Dirs /\ d # None /\ r.task = "cleanup" /\ r.fate = "exists"
      /\ entry[r.key] # None /\ Resolve(c, r.at) = d
  BY <1>1, <1>2, LiveHere, RemovingHere
<1>4. PICK s : s = [r EXCEPT !.dir = d, !.kids = Children(d), !.pc = "rmKids"]
  OBVIOUS
<1>5. me' = [me EXCEPT ![c] = s]
  BY <1>1, <1>3, <1>4 DEF RemoveOpen
<1>6. /\ s.pc = "rmKids" /\ s.op = r.op /\ s.key = r.key /\ s.task = r.task /\ s.temp = r.temp
      /\ s.fd = r.fd /\ s.fate = r.fate
  BY <1>3, <1>4, ClientFields
<1>7. CalmAt(s, mem[c])
  BY <1>1, <1>3, <1>6, OpenCalm DEF Reading, Removing
<1> QED
  BY <1>2, <1>5, <1>7, CalmGo

\* A change of the client's own temporary directory, which nobody else sees.
LEMMA OwnSpares ==
    ASSUME CalmNow, NEW c \in Clients, NEW d \in Dirs,
           d = me[c].temp \/ Fresh(d),
           marker' = marker, shard' = shard, entry' = entry, mem' = mem,
           \A b \in Clients : b # c => me'[b] = me[b],
           temps' \in {temps, temps \cup {d}, temps \ {d}},
           \A e \in Dirs : e # d => files'[e] = files[e]
    PROVE  Spares(c)
<1>1. ASSUME NEW k \in Keys, entry[k] # None PROVE files'[entry[k]] = files[entry[k]]
  <2>1. entry[k] \in Dirs /\ entry[k] # me[c].temp
    BY <1>1, EntryHere
  <2>2. entry[k] # d
    BY <2>1 DEF Fresh
  <2> QED
    BY <2>1, <2>2
<1>2. ASSUME NEW b \in Clients, b # c, me[b].temp # None
      PROVE  /\ me[b].temp \in temps => me[b].temp \in temps'
             /\ files'[me[b].temp] = files[me[b].temp]
  <2>1. me[b].temp \in Dirs
    BY <1>2, TempType DEF CalmNow
  <2>2. me[b].temp # d
    BY <1>2 DEF Fresh, CalmNow, SafeInv, Separate
  <2> QED
    BY <2>1, <2>2
<1> QED
  BY <1>1, <1>2 DEF Spares

\* What was cached stays an answer.
LEMMA OnwardStays ==
    ASSUME CalmNow, NEW c \in Clients, Spares(c), NEW n, n = mem[c], NEW s, s.key = me[c].key,
           s.task = me[c].task \/ s.task \notin {"none", "first"}
    PROVE  \A i \in 1 .. Len(n) :
              Won(n[i])' \/ (s.task \notin {"none", "first"} /\ n[i][1] = s.key)
<1>1. \A i \in 1 .. Len(n) : Won(n[i]) \/ (s.task \notin {"none", "first"} /\ n[i][1] = s.key)
  BY OnwardCache
<1>2. \A i \in 1 .. Len(n) : n[i] \in Pairs
  BY CalmHere
<1> QED
  BY <1>1, <1>2, WonStays

LEMMA RemoveChildCalm == ASSUME CalmNow, NEW c \in Clients, RemoveChild(c) PROVE CalmInv'
<1>1. PICK r, d, n : r = me[c] /\ d = me[c].temp /\ n = mem[c]
  OBVIOUS
<1>2. r.pc \in Removing /\ r.pc = "rmKids"
      /\ marker' = marker /\ shard' = shard /\ entry' = entry /\ temps' = temps /\ mem' = mem
      /\ answers' = answers
  BY <1>1 DEF RemoveChild, At, Removing, history
<1>3. /\ r \in Client /\ r.op = "generate" /\ r.key \in Keys /\ r.fd = "live" /\ shard
      /\ d \in temps /\ d \in Dirs /\ d # None /\ r.task = "cleanup" /\ r.fate = "exists"
      /\ entry[r.key] # None /\ r.dir = d /\ r.kids = Children(d)
  BY <1>1, <1>2, LiveHere, RemovingHere
<1>4. me \in [Clients -> Client] /\ files \in [Dirs -> Files]
  BY DEF CalmNow, SafeInv, TypeOK
<1>5. PICK f \in r.kids : files' = [files EXCEPT ![d][f] = NoFile]
                          /\ me' = [me EXCEPT ![c].kids = @ \ {f}]
  BY <1>1, <1>3 DEF RemoveChild, Children
<1>6. PICK s : s = [r EXCEPT !.kids = @ \ {f}]
  OBVIOUS
<1>7. me'[c] = s /\ \A b \in Clients : b # c => me'[b] = me[b]
  BY <1>1, <1>4, <1>5, <1>6
<1>8. /\ s.pc = "rmKids" /\ s.op = r.op /\ s.key = r.key /\ s.task = r.task /\ s.temp = r.temp
      /\ s.fd = r.fd /\ s.fate = r.fate
  BY <1>2, <1>3, <1>6, ClientFields
<1>9. \A e \in Dirs : e # d => files'[e] = files[e]
  BY <1>4, <1>5
<1>10. Spares(c)
  BY <1>1, <1>2, <1>3, <1>7, <1>9, OwnSpares
<1>11. CalmAt(s, n)'
  <2>1. \A i \in 1 .. Len(n) : Won(n[i])' \/ (s.task \notin {"none", "first"} /\ n[i][1] = s.key)
    BY <1>1, <1>8, <1>10, OnwardStays
  <2> QED
    BY <1>1, <1>2, <1>3, <1>8, <2>1 DEF CalmAt, Reading, Removing, Writing
<1> QED
  BY <1>1, <1>2, <1>7, <1>10, <1>11, CalmStep

LEMMA RemoveDirectoryCalm == ASSUME CalmNow, NEW c \in Clients, RemoveDirectory(c) PROVE CalmInv'
<1>1. PICK r, d, n : r = me[c] /\ d = me[c].temp /\ n = mem[c]
  OBVIOUS
<1>2. r.pc \in Removing /\ r.pc = "rmKids" /\ r.kids = {}
      /\ marker' = marker /\ shard' = shard /\ files' = files /\ mem' = mem /\ answers' = answers
  BY <1>1 DEF RemoveDirectory, At, Removing, history
<1>3. /\ r \in Client /\ r.op = "generate" /\ r.key \in Keys /\ d \in Dirs /\ d # None
      /\ r.task = "cleanup" /\ r.fate = "exists" /\ r.at = d /\ r.text \in Texts
      /\ entry[r.key] # None /\ Resolve(c, r.at) = d /\ Children(d) = {}
  BY <1>1, <1>2, LiveHere, RemovingHere
<1>4. me \in [Clients -> Client] /\ entry \in [Keys -> Dirs \cup {None}] /\ d \notin Keys
  BY <1>3, NamesAssumption DEF CalmNow, SafeInv, TypeOK
<1>5. PICK s : s = Lookup(r, "again")
  OBVIOUS
<1>6. RemovedTree(r) = s
  BY <1>3, <1>5 DEF RemovedTree, Stored
<1>7. /\ me' = [me EXCEPT ![c] = s] /\ temps' = temps \ {d}
      /\ entry' = [k \in Keys |-> IF k = d THEN None ELSE entry[k]]
  BY <1>1, <1>3, <1>6 DEF RemoveDirectory, Become
<1>8. entry' = entry
  BY <1>4, <1>7
<1>9. me'[c] = s /\ \A b \in Clients : b # c => me'[b] = me[b]
  BY <1>4, <1>7
<1>10. Spares(c)
  BY <1>1, <1>2, <1>3, <1>7, <1>8, <1>9, OwnSpares
<1>11. /\ s.pc = "root" /\ s.op = r.op /\ s.key = r.key /\ s.task = "again" /\ s.temp = None
       /\ s.fd = "none"
  <2>1. PICK q : q = Close(r)
    OBVIOUS
  <2>2. q \in Client /\ q.op = r.op /\ q.key = r.key /\ q.temp = None /\ q.fd = "none"
    BY <1>3, <2>1, CloseKeeps
  <2> QED
    BY <1>5, <2>1, <2>2, ClientFields DEF Lookup
<1>12. CalmAt(s, n)'
  <2>1. \A i \in 1 .. Len(n) : Won(n[i])' \/ (s.task \notin {"none", "first"} /\ n[i][1] = s.key)
    BY <1>1, <1>11, <1>10, OnwardStays
  <2> QED
    BY <1>3, <1>8, <1>11, <2>1 DEF CalmAt, Reading, Removing, Writing
<1> QED
  BY <1>1, <1>2, <1>8, <1>9, <1>10, <1>12, CalmStep

LEMMA StoringHere ==
    ASSUME CalmNow, NEW c \in Clients, me[c].pc \in Storing
    PROVE  /\ me[c] \in Client /\ CalmAt(me[c], mem[c]) /\ me[c].op = "generate"
           /\ me[c].key \in Keys /\ me[c].task = "pre" /\ me[c].text \in Texts
           /\ me[c].pc \notin Writing => me[c].temp = None
           /\ me[c].pc \in Writing => me[c].temp \in Dirs /\ me[c].temp # None /\ me[c].temp \in temps
<1>1. me[c].pc # "idle"
  BY DEF Storing
<1>2. /\ me[c] \in Client /\ Shape(me[c]) /\ CalmAt(me[c], mem[c]) /\ me[c].op = "generate"
      /\ me[c].key \in Keys
  BY <1>1, CalmHere
<1>3. me[c].task = "pre" /\ me[c].text \in Texts
  BY <1>1, <1>2 DEF Shape
<1>4. me[c].pc \notin Writing => me[c].temp = None
  BY <1>2 DEF Shape, Storing, Reading, Removing
<1>5. me[c].pc \in Writing => me[c].temp # None
  BY <1>2 DEF Shape
<1> QED
  BY <1>2, <1>3, <1>4, <1>5, LiveHere

\* Up to the temporary directory: the root is marked, the shard is made.
LEMMA MakeShardCalm ==
    ASSUME CalmNow, NEW c \in Clients, EnsureOwnedRoot(c) \/ MakeShard(c) \/ AcquireShard(c)
    PROVE  CalmInv'
<1>1. PICK r, n : r = me[c] /\ n = mem[c]
  OBVIOUS
<1>2. r.pc \in {"own", "mkShard", "opShard"} /\ r.pc \in Storing /\ r.pc \notin Writing
  BY <1>1 DEF EnsureOwnedRoot, MakeShard, AcquireShard, At, Storing, Writing
<1>3. /\ r \in Client /\ CalmAt(r, n) /\ r.op = "generate" /\ r.key \in Keys /\ r.task = "pre"
      /\ r.temp = None /\ me \in [Clients -> Client] /\ marker = "ok"
  BY <1>1, <1>2, StoringHere DEF CalmNow, SafeInv, TypeOK, CalmInv
<1>4. CASE EnsureOwnedRoot(c)
  <2>1. PICK s : s = [r EXCEPT !.pc = "mkShard"]
    OBVIOUS
  <2>2. me' = [me EXCEPT ![c] = s] /\ UNCHANGED <<disk, history>> /\ r.pc = "own"
    BY <1>1, <1>3, <1>4, <2>1 DEF EnsureOwnedRoot, Go, At
  <2>3. /\ s.pc = "mkShard" /\ s.op = r.op /\ s.key = r.key /\ s.task = r.task /\ s.temp = None
        /\ s.fd = r.fd
    BY <1>3, <2>1, ClientFields
  <2>4. CalmAt(s, mem[c])
    BY <1>1, <1>3, <2>2, <2>3 DEF CalmAt, Reading, Removing, Writing
  <2> QED
    BY <2>2, <2>4, CalmGo
<1>5. CASE MakeShard(c)
  <2>1. PICK s : s = [r EXCEPT !.pc = "opShard"]
    OBVIOUS
  <2>2. /\ me' = [me EXCEPT ![c] = s] /\ shard' /\ marker' = marker /\ entry' = entry
        /\ temps' = temps /\ files' = files /\ mem' = mem /\ answers' = answers /\ r.pc = "mkShard"
    BY <1>1, <1>5, <2>1 DEF MakeShard, Go, At, history
  <2>3. /\ s.pc = "opShard" /\ s.op = r.op /\ s.key = r.key /\ s.task = r.task /\ s.temp = None
        /\ s.fd = r.fd
    BY <1>3, <2>1, ClientFields
  <2>4. me'[c] = s /\ Spares(c)
    BY <1>3, <2>2 DEF Spares
  <2>5. \A i \in 1 .. Len(n) : Won(n[i])' \/ (s.task \notin {"none", "first"} /\ n[i][1] = s.key)
    BY <1>1, <2>3, <2>4, OnwardStays
  <2>6. CalmAt(s, n)'
    BY <1>3, <2>2, <2>3, <2>5 DEF CalmAt, Reading, Removing, Writing
  <2> QED
    BY <1>1, <2>2, <2>4, <2>6, CalmStep
<1>6. CASE AcquireShard(c)
  <2>1. PICK s : s = [r EXCEPT !.fd = "live", !.pc = "mkTemp"]
    OBVIOUS
  <2>2. UNCHANGED <<disk, history>> /\ r.pc = "opShard"
    BY <1>1, <1>6 DEF AcquireShard, At
  <2>3. shard
    BY <1>3, <2>2 DEF CalmAt
  <2>4. me' = [me EXCEPT ![c] = s]
    BY <1>1, <1>6, <2>1, <2>3 DEF AcquireShard
  <2>5. /\ s.pc = "mkTemp" /\ s.op = r.op /\ s.key = r.key /\ s.task = r.task /\ s.temp = None
        /\ s.fd = "live"
    BY <1>3, <2>1, ClientFields
  <2>6. CalmAt(s, mem[c])
    BY <1>1, <1>3, <2>3, <2>5, OpenCalm DEF Reading, Removing, Lookups
  <2> QED
    BY <2>2, <2>4, <2>6, CalmGo
<1> QED
  BY <1>4, <1>5, <1>6

LEMMA MakeTempCalm == ASSUME CalmNow, NEW c \in Clients, MakeTemp(c) PROVE CalmInv'
<1>1. PICK r, n : r = me[c] /\ n = mem[c]
  OBVIOUS
<1>2. /\ r.pc = "mkTemp" /\ r.pc \in Storing /\ r.pc \notin Writing
      /\ marker' = marker /\ shard' = shard /\ entry' = entry /\ mem' = mem /\ answers' = answers
  BY <1>1 DEF MakeTemp, At, Storing, Writing, history
<1>3. /\ r \in Client /\ CalmAt(r, n) /\ r.op = "generate" /\ r.key \in Keys /\ r.task = "pre"
      /\ me \in [Clients -> Client] /\ files \in [Dirs -> Files]
  BY <1>1, <1>2, StoringHere DEF CalmNow, SafeInv, TypeOK
<1>4. r.fd = "live" /\ shard
  BY <1>2, <1>3 DEF CalmAt
<1>5. PICK d \in Dirs : /\ Fresh(d) /\ temps' = temps \cup {d} /\ files' = [files EXCEPT ![d] = NoFiles]
                        /\ me' = [me EXCEPT ![c].temp = d, ![c].pc = "wrPayload"]
  BY <1>1, <1>4 DEF MakeTemp
<1>6. PICK s : s = [r EXCEPT !.temp = d, !.pc = "wrPayload"]
  OBVIOUS
<1>7. me'[c] = s /\ (\A b \in Clients : b # c => me'[b] = me[b]) /\ \A e \in Dirs : e # d => files'[e] = files[e]
  BY <1>1, <1>3, <1>5, <1>6
<1>8. /\ s.pc = "wrPayload" /\ s.op = r.op /\ s.key = r.key /\ s.task = r.task /\ s.temp = d
      /\ s.fd = "live"
  BY <1>3, <1>4, <1>6, ClientFields
<1>9. Spares(c)
  BY <1>2, <1>5, <1>7, OwnSpares
<1>10. \A i \in 1 .. Len(n) : Won(n[i])' \/ (s.task \notin {"none", "first"} /\ n[i][1] = s.key)
  BY <1>1, <1>8, <1>9, OnwardStays
<1>11. CalmAt(s, n)'
  BY <1>2, <1>3, <1>4, <1>5, <1>8, <1>10 DEF CalmAt, Reading, Removing, Writing
<1> QED
  BY <1>1, <1>2, <1>7, <1>9, <1>11, CalmStep

LEMMA WriteFileCalm ==
    ASSUME CalmNow, NEW c \in Clients, WritePayload(c) \/ WriteMetadata(c)
    PROVE  CalmInv'
<1>1. PICK r, n, d : r = me[c] /\ n = mem[c] /\ d = me[c].temp
  OBVIOUS
<1>2. /\ r.pc \in {"wrPayload", "wrMeta"} /\ r.pc \in Storing /\ r.pc \in Writing
      /\ marker' = marker /\ shard' = shard /\ entry' = entry /\ temps' = temps /\ mem' = mem
      /\ answers' = answers
  BY <1>1 DEF WritePayload, WriteMetadata, WriteFile, At, Storing, Writing, history
<1>3. /\ r \in Client /\ CalmAt(r, n) /\ r.op = "generate" /\ r.key \in Keys /\ r.task = "pre"
      /\ r.temp = d /\ d \in Dirs /\ d \in temps
      /\ me \in [Clients -> Client] /\ files \in [Dirs -> Files]
  BY <1>1, <1>2, StoringHere DEF CalmNow, SafeInv, TypeOK
<1>4. r.fd = "live" /\ shard
  BY <1>2, <1>3 DEF CalmAt
<1>5. PICK f, l : /\ \/ f = "payload" /\ l = "wrMeta"
                     \/ f = "meta" /\ l = "publish" /\ r.pc = "wrMeta"
                  /\ files' = [files EXCEPT ![d][f] = r.text] /\ me' = [me EXCEPT ![c].pc = l]
  <2>1. CASE WritePayload(c)
    <3>1. files' = [files EXCEPT ![d]["payload"] = r.text] /\ me' = [me EXCEPT ![c].pc = "wrMeta"]
      BY <1>1, <1>3, <2>1 DEF WritePayload, WriteFile, Go
    <3> QED
      BY <3>1
  <2>2. CASE WriteMetadata(c)
    <3>1. /\ files' = [files EXCEPT ![d]["meta"] = r.text] /\ me' = [me EXCEPT ![c].pc = "publish"]
          /\ r.pc = "wrMeta"
      BY <1>1, <1>3, <2>2 DEF WriteMetadata, WriteFile, Go, At
    <3> QED
      BY <3>1
  <2> QED
    BY <2>1, <2>2
<1>6. PICK s : s = [r EXCEPT !.pc = l]
  OBVIOUS
<1>7. me'[c] = s /\ (\A b \in Clients : b # c => me'[b] = me[b]) /\ \A e \in Dirs : e # d => files'[e] = files[e]
  BY <1>1, <1>3, <1>5, <1>6
<1>8. /\ s.pc = l /\ s.op = r.op /\ s.key = r.key /\ s.task = r.task /\ s.temp = d
      /\ s.fd = "live" /\ s.text = r.text
  BY <1>3, <1>4, <1>6, ClientFields
<1>9. Spares(c)
  BY <1>1, <1>2, <1>3, <1>7, OwnSpares
<1>10. \A i \in 1 .. Len(n) : Won(n[i])' \/ (s.task \notin {"none", "first"} /\ n[i][1] = s.key)
  BY <1>1, <1>8, <1>9, OnwardStays
<1>11. files'[d].payload = r.text /\ (l = "publish" => files'[d].meta = r.text)
  <2>1. files[d] \in Files /\ (r.pc = "wrMeta" => files[d].payload = r.text)
    BY <1>3 DEF CalmAt
  <2>2. files'[d] = [files[d] EXCEPT ![f] = r.text]
    BY <1>3, <1>5
  <2> QED
    BY <1>5, <2>1, <2>2 DEF Files
<1>12. CalmAt(s, n)'
  BY <1>2, <1>3, <1>4, <1>5, <1>8, <1>10, <1>11 DEF CalmAt, Reading, Removing, Writing
<1> QED
  BY <1>1, <1>2, <1>7, <1>9, <1>12, CalmStep

LEMMA PublishCalm == ASSUME CalmNow, NEW c \in Clients, Publish(c) PROVE CalmInv'
<1>1. PICK r, n, d, k : r = me[c] /\ n = mem[c] /\ d = me[c].temp /\ k = me[c].key
  OBVIOUS
<1>2. /\ r.pc = "publish" /\ r.pc \in Storing /\ r.pc \in Writing
      /\ marker' = marker /\ shard' = shard /\ files' = files /\ mem' = mem /\ answers' = answers
  BY <1>1 DEF Publish, At, Storing, Writing, history
<1>3. /\ r \in Client /\ CalmAt(r, n) /\ r.op = "generate" /\ r.key = k /\ k \in Keys /\ r.task = "pre"
      /\ r.temp = d /\ d \in Dirs /\ d # None /\ d \in temps /\ r.text \in Texts
      /\ me \in [Clients -> Client] /\ entry \in [Keys -> Dirs \cup {None}]
  BY <1>1, <1>2, StoringHere DEF CalmNow, SafeInv, TypeOK
<1>4. /\ r.fd = "live" /\ shard /\ files[d].payload = r.text /\ files[d].meta = r.text
      /\ Resolve(c, k) = entry[k]
  <2>1. r.fd = "live" /\ shard /\ Resolve(c, k) = entry[k]
    BY <1>1, <1>2, LiveHere
  <2> QED
    BY <1>2, <1>3, <2>1 DEF CalmAt
<1>5. CASE entry[k] = None
  <2>1. CanRename(c)
    BY <1>1, <1>3, <1>4, <1>5 DEF CanRename
  <2>2. PICK q, s : q = [r EXCEPT !.temp = None] /\ s = [Close(q) EXCEPT !.pc = "return"]
    OBVIOUS
  <2>3. q \in Client /\ q.op = r.op /\ q.key = r.key /\ q.task = r.task /\ q.text = r.text
    BY <1>3, <2>2, ClientFields, FieldValues
  <2>4. Stored(q, "stored") = s
    BY <1>3, <2>2, <2>3 DEF Stored
  <2>5. /\ me' = [me EXCEPT ![c] = s] /\ temps' = temps \ {d} /\ entry' = [entry EXCEPT ![k] = d]
    BY <1>1, <2>1, <2>2, <2>4 DEF Publish, Become
  <2>6. /\ s.pc = "return" /\ s.op = r.op /\ s.key = k /\ s.task = "pre" /\ s.text = r.text
        /\ s.temp = None /\ s.fd = "none"
    <3>1. PICK p : p = Close(q)
      OBVIOUS
    <3>2. /\ p \in Client /\ p.op = q.op /\ p.key = q.key /\ p.temp = None /\ p.fd = "none"
          /\ p.task = q.task /\ p.text = q.text
      BY <2>3, <3>1, CloseKeeps
    <3> QED
      BY <1>3, <2>2, <2>3, <3>1, <3>2, ClientFields
  <2>7. me'[c] = s /\ (\A b \in Clients : b # c => me'[b] = me[b])
    BY <1>3, <2>5
  <2>8. Spares(c)
    <3>1. \A j \in Keys : entry[j] # None => entry'[j] = entry[j]
      BY <1>3, <1>5, <2>5
    <3>2. ASSUME NEW b \in Clients, b # c, me[b].temp # None, me[b].temp \in temps PROVE me[b].temp \in temps'
      <4>1. me[b].temp # d
        BY <1>1, <3>2 DEF CalmNow, SafeInv, Separate
      <4> QED
        BY <2>5, <3>2, <4>1
    <3> QED
      BY <1>2, <2>7, <3>1, <3>2 DEF Spares
  <2>9. entry'[k] = d /\ \A j \in Keys : j # k => entry'[j] = entry[j]
    BY <1>3, <2>5
  <2>10. Won(<<s.key, s.text>>)'
    BY <1>2, <1>3, <1>4, <2>6, <2>9 DEF Won
  <2>11. \A j \in Keys : entry'[j] # None => entry'[j] = entry[j] \/ (shard /\ Whole(entry[j]))'
    BY <1>2, <1>3, <1>4, <2>9 DEF Whole
  <2>12. \A i \in 1 .. Len(n) : Won(n[i])' \/ (s.task \notin {"none", "first"} /\ n[i][1] = s.key)
    BY <1>1, <2>6, <2>8, OnwardStays
  <2>13. CalmAt(s, n)'
    BY <1>3, <2>6, <2>10, <2>12 DEF CalmAt, Reading, Removing, Writing
  <2> QED
    BY <1>1, <1>2, <2>7, <2>8, <2>11, <2>13, CalmStep
<1>6. CASE entry[k] # None
  <2>1. ~CanRename(c)
    <3>1. Children(entry[k]) # {}
      BY <1>3, <1>6, EntryHere
    <3> QED
      BY <1>1, <1>4, <1>6, <3>1 DEF CanRename
  <2>2. PICK s : s = [r EXCEPT !.task = "collide", !.pc = "open"]
    OBVIOUS
  <2>3. me' = [me EXCEPT ![c] = s] /\ UNCHANGED <<disk, history>>
    BY <1>1, <2>1, <2>2 DEF Publish, disk
  <2>4. /\ s.pc = "open" /\ s.op = r.op /\ s.key = k /\ s.task = "collide" /\ s.temp = d
        /\ s.fd = "live"
    BY <1>3, <1>4, <2>2, ClientFields
  <2>5. CalmAt(s, mem[c])
    BY <1>1, <1>3, <1>4, <1>6, <2>4, OpenCalm DEF Reading, Removing
  <2> QED
    BY <2>3, <2>5, CalmGo
<1> QED
  BY <1>5, <1>6

\* What a provider caches of its own call is the only pair it may not have seen published.
LEMMA CachedWon ==
    ASSUME CalmNow, NEW c \in Clients, NEW k \in Keys, NEW t \in Texts,
           me[c].task \in {"none", "first"} \/ me[c].key = k
    PROVE  LET n == PutCache(mem[c], k, t)
           IN  \A i \in 1 .. Len(n) : Won(n[i]) \/ n[i] = <<k, t>>
<1> DEFINE n == PutCache(mem[c], k, t)
<1>1. CalmAt(me[c], mem[c]) /\ mem[c] \in Seq(Pairs) /\ Dictionary(mem[c]) /\ Len(mem[c]) <= MemCap
  BY CalmHere
<1>2. \A i \in 1 .. Len(n) :
         n[i] = <<k, t>> \/ (n[i][1] # k /\ \E j \in 1 .. Len(mem[c]) : n[i] = mem[c][j])
  BY <1>1, PutCacheKeeps
<1> HIDE DEF n
<1>3. \A j \in 1 .. Len(mem[c]) : mem[c][j][1] # k => Won(mem[c][j])
  BY <1>1 DEF CalmAt
<1> QED
  BY <1>2, <1>3 DEF n

\* A step that only tells: the process-local cache, an answer.
LEMMA TellCalm ==
    ASSUME CalmNow, NEW c \in Clients, NEW s, NEW n, UNCHANGED disk,
           me' = [me EXCEPT ![c] = s], mem' = [mem EXCEPT ![c] = n], CalmAt(s, n),
           \A p \in answers' : p \in answers \/ Won(p)
    PROVE  CalmInv'
<1>1. /\ marker' = marker /\ shard' = shard /\ entry' = entry /\ temps' = temps /\ files' = files
      /\ me \in [Clients -> Client] /\ mem \in [Clients -> Seq(Keys \X Texts)]
  BY DEF disk, CalmNow, SafeInv, TypeOK
<1>2. me'[c] = s /\ mem'[c] = n /\ Spares(c)
  BY <1>1 DEF Spares
<1>3. CalmAt(s, n)'
  BY <1>1 DEF CalmAt, Won
<1>4. \A p \in answers' : p \in answers \/ Won(p)'
  BY <1>1 DEF Won
<1> QED
  BY <1>1, <1>2, <1>3, <1>4, CalmStep

LEMMA IdleCalm == ASSUME NEW n, \A i \in 1 .. Len(n) : Won(n[i]) PROVE CalmAt(Idle, n)
<1>1. /\ Idle.pc = "idle" /\ Idle.op = "none" /\ Idle.task = "none" /\ Idle.fd = "none"
      /\ Idle.temp = None
  BY DEF Idle
<1> QED
  BY <1>1 DEF CalmAt, Reading, Removing, Writing

LEMMA GenerateCalm == ASSUME CalmNow, NEW c \in Clients, NEW k \in Keys, Generate(c, k) PROVE CalmInv'
<1>1. me[c] = Idle /\ me[c].task = "none" /\ UNCHANGED disk /\ CalmAt(me[c], mem[c])
  <2>1. me[c].pc = "idle" /\ UNCHANGED disk
    BY DEF Generate, At
  <2>2. me[c] = Idle /\ CalmAt(me[c], mem[c])
    BY <2>1, CalmHere
  <2> QED
    BY <2>1, <2>2 DEF Idle
<1>2. me \in [Clients -> Client] /\ mem \in [Clients -> Seq(Keys \X Texts)]
  BY DEF CalmNow, SafeInv, TypeOK
<1>3. \A i \in 1 .. Len(mem[c]) : Won(mem[c][i])
  BY <1>1 DEF CalmAt
<1>4. CASE Cached(c, k) # {}
  <2>1. PICK t \in Cached(c, k) : mem' = [mem EXCEPT ![c] = PutCache(mem[c], k, t)]
                                  /\ answers' = answers \cup {<<k, t>>} /\ UNCHANGED me
    BY <1>4 DEF Generate
  <2>2. t \in Texts /\ Won(<<k, t>>)
    BY <1>3, CachedTold DEF CalmNow
  <2>3. PICK n : n = PutCache(mem[c], k, t)
    OBVIOUS
  <2>4. \A i \in 1 .. Len(n) : Won(n[i])
    <3>1. \A i \in 1 .. Len(PutCache(mem[c], k, t)) :
             Won(PutCache(mem[c], k, t)[i]) \/ PutCache(mem[c], k, t)[i] = <<k, t>>
      BY <1>1, <2>2, CachedWon
    <3> QED
      BY <2>2, <2>3, <3>1
  <2>5. me' = [me EXCEPT ![c] = Idle] /\ mem' = [mem EXCEPT ![c] = n]
    BY <1>1, <1>2, <2>1, <2>3
  <2>6. \A p \in answers' : p \in answers \/ Won(p)
    BY <2>1, <2>2
  <2> QED
    BY <1>1, <2>4, <2>5, <2>6, IdleCalm, TellCalm
<1>5. CASE Cached(c, k) = {}
  <2>1. PICK s : s = [Idle EXCEPT !.op = "generate", !.key = k, !.pc = "root", !.task = "first"]
    OBVIOUS
  <2>2. me' = [me EXCEPT ![c] = s] /\ UNCHANGED <<disk, history>>
    BY <1>5, <2>1 DEF Generate, Become, history
  <2>3. /\ s.pc = "root" /\ s.op = "generate" /\ s.task = "first" /\ s.temp = None /\ s.fd = "none"
    BY <2>1 DEF Idle
  <2>4. CalmAt(s, mem[c])
    BY <1>3, <2>3 DEF CalmAt, Reading, Removing, Writing
  <2> QED
    BY <2>2, <2>4, CalmGo
<1> QED
  BY <1>4, <1>5

LEMMA CallCalm == ASSUME CalmNow, NEW c \in Clients, Call(c) PROVE CalmInv'
<1>1. PICK r : r = me[c]
  OBVIOUS
<1>2. r.pc = "call" /\ UNCHANGED disk /\ answers' = answers
  BY <1>1 DEF Call, At
<1>3. /\ r \in Client /\ Shape(r) /\ CalmAt(r, mem[c]) /\ r.op = "generate" /\ r.key \in Keys
      /\ r.task = "first" /\ r.temp = None
  <2>1. r \in Client /\ Shape(r) /\ CalmAt(r, mem[c]) /\ r.op = "generate" /\ r.key \in Keys
    BY <1>1, <1>2, CalmHere
  <2> QED
    BY <1>2, <2>1 DEF Shape, CalmAt, Reading, Writing, Removing
<1>4. \A i \in 1 .. Len(mem[c]) : Won(mem[c][i])
  BY <1>3 DEF CalmAt
<1>5. ASSUME NEW t \in Texts, mem' = [mem EXCEPT ![c] = PutCache(mem[c], r.key, t)],
             me' = [me EXCEPT ![c] = [Lookup(r, "pre") EXCEPT !.text = t]]
      PROVE  CalmInv'
  <2>1. PICK n, q, s : /\ n = PutCache(mem[c], r.key, t) /\ q = Close(r)
                       /\ s = [q EXCEPT !.pc = "root", !.task = "pre", !.text = t]
    OBVIOUS
  <2>2. q \in Client /\ q.op = r.op /\ q.key = r.key /\ q.temp = None /\ q.fd = "none"
    BY <1>3, <2>1, CloseKeeps
  <2>3. me' = [me EXCEPT ![c] = s] /\ mem' = [mem EXCEPT ![c] = n]
    BY <1>5, <2>1 DEF Lookup
  <2>4. /\ s.pc = "root" /\ s.task = "pre" /\ s.op = "generate" /\ s.key = r.key /\ s.temp = None
        /\ s.fd = "none"
    BY <1>3, <2>1, <2>2, ClientFields
  <2>5. \A i \in 1 .. Len(n) : Won(n[i]) \/ n[i] = <<r.key, t>>
    <3>1. \A i \in 1 .. Len(PutCache(mem[c], r.key, t)) :
             \/ Won(PutCache(mem[c], r.key, t)[i])
             \/ PutCache(mem[c], r.key, t)[i] = <<r.key, t>>
      BY <1>1, <1>3, CachedWon
    <3> QED
      BY <2>1, <3>1
  <2>6. CalmAt(s, n)
    BY <2>4, <2>5 DEF CalmAt, Reading, Removing, Writing
  <2> QED
    BY <1>2, <2>3, <2>6, TellCalm
<1>6. ASSUME me' = [me EXCEPT ![c].tries = @ + 1], UNCHANGED <<mem, produced>>
      PROVE  CalmInv'
  <2>1. PICK s : s = [r EXCEPT !.tries = @ + 1]
    OBVIOUS
  <2>2. me' = [me EXCEPT ![c] = s] /\ UNCHANGED <<disk, history>>
    BY <1>1, <1>2, <1>6, <2>1 DEF history
  <2>3. /\ s.pc = r.pc /\ s.task = r.task /\ s.op = r.op /\ s.key = r.key /\ s.temp = r.temp
        /\ s.fd = r.fd
    BY <1>3, <2>1, ClientFields
  <2>4. CalmAt(s, mem[c])
    BY <1>2, <1>3, <1>4, <2>3 DEF CalmAt, Reading, Removing, Writing
  <2> QED
    BY <2>2, <2>4, CalmGo
<1>7. ASSUME Fail(c), UNCHANGED <<mem, produced>> PROVE CalmInv'
  <2>1. me' = [me EXCEPT ![c] = Idle] /\ UNCHANGED <<disk, history>>
    BY <1>2, <1>7 DEF Fail, Become, history
  <2> QED
    BY <1>4, <2>1, IdleCalm, CalmGo
<1> QED
  BY <1>1, <1>5, <1>6, <1>7 DEF Call, Become

LEMMA ReturnCalm == ASSUME CalmNow, NEW c \in Clients, Return(c) PROVE CalmInv'
<1>1. PICK k, t, n : k = me[c].key /\ t = me[c].text /\ n = PutCache(mem[c], k, t)
  OBVIOUS
<1>2. me[c].pc = "return" /\ UNCHANGED disk /\ answers' = answers \cup {<<k, t>>}
      /\ mem' = [mem EXCEPT ![c] = n] /\ me' = [me EXCEPT ![c] = Idle]
  BY <1>1 DEF Return, At, Become
<1>3. k \in Keys /\ t \in Texts /\ Won(<<k, t>>)
  BY <1>1, <1>2, CalmHere DEF CalmAt, Shape
<1>4. \A i \in 1 .. Len(n) : Won(n[i])
  <2>1. \A i \in 1 .. Len(PutCache(mem[c], k, t)) :
           Won(PutCache(mem[c], k, t)[i]) \/ PutCache(mem[c], k, t)[i] = <<k, t>>
    BY <1>1, <1>3, CachedWon
  <2> QED
    BY <1>1, <1>3, <2>1
<1>5. \A p \in answers' : p \in answers \/ Won(p)
  BY <1>2, <1>3
<1> QED
  BY <1>2, <1>4, <1>5, IdleCalm, TellCalm

\* What a disturbance, a purge or another producer would do.
LEMMA CalmExcludes ==
    ASSUME CalmNow, NEW c \in Clients
    PROVE  /\ ~RemoveEmptyShard(c) /\ ~CreateMarker(c) /\ ~WriteMarker(c) /\ ~PurgeStep(c)
           /\ \A k \in Keys : ~Put(c, k)
<1>1. CalmAt(me[c], mem[c]) /\ Shape(me[c])
  BY CalmHere
<1>2. me[c].pc \notin {"mkMarker", "wrMarker", "rmShard", "purge", "purgeList", "purgeNext"}
  BY <1>1 DEF CalmAt, Shape
<1>3. "put" \notin Ops
  BY DEF CalmNow, Calm
<1> QED
  BY <1>2, <1>3 DEF RemoveEmptyShard, CreateMarker, WriteMarker, PurgeStep, PurgeRoot, PurgeList,
                    PurgeEntry, PurgeShard, Put, At

LEMMA CalmInit == Init /\ Calm => CalmInv
<1> SUFFICES ASSUME Init, Calm PROVE CalmInv
  OBVIOUS
<1>1. /\ marker = "ok" /\ answers = {} /\ \A k \in Keys : entry[k] = None
      /\ \A c \in Clients : me[c] = Idle /\ mem[c] = <<>>
  BY DEF Init, Calm
<1>2. \A c \in Clients : CalmAt(me[c], mem[c])
  BY <1>1, IdleCalm
<1> QED
  BY <1>1, <1>2 DEF CalmInv, EntriesWhole

LEMMA CalmNext == ASSUME SafeInv, Calm => CalmInv, [Next]_vars PROVE (Calm => CalmInv)'
<1> SUFFICES ASSUME Calm' PROVE CalmInv'
  OBVIOUS
<1>1. CASE UNCHANGED vars
  BY <1>1 DEF vars, Calm, CalmInv, CalmAt, Won, Whole, EntriesWhole
<1>2. CASE \E kind : Disturb(kind)
  BY <1>2 DEF Disturb, Calm
<1>3. CASE Next /\ ~\E kind : Disturb(kind)
  <2>1. met' = met
    <3>1. ASSUME NEW c \in Clients, Read(c) \/ Remove(c) PROVE met' = met
      BY <3>1 DEF Read, Remove, ValidateRoot, OpenShard, StatEntry, OpenEntry, ReadMetadata,
         ReadPayload, RemoveOpen, RemoveChild, RemoveDirectory, RemoveEmptyShard
    <3>2. ASSUME NEW c \in Clients, Store(c) PROVE met' = met
      BY <3>2 DEF Store, EnsureOwnedRoot, CreateMarker, WriteMarker, MakeShard, AcquireShard,
         MakeTemp, WritePayload, WriteMetadata, WriteFile, Publish
    <3>3. ASSUME NEW c \in Clients, Call(c) \/ Return(c) \/ PurgeStep(c) PROVE met' = met
      BY <3>3 DEF Call, Return, PurgeStep, PurgeRoot, PurgeList, PurgeEntry, PurgeShard
    <3>4. ASSUME NEW c \in Clients, NEW k \in Keys, Generate(c, k) \/ Put(c, k) PROVE met' = met
      BY <3>4 DEF Generate, Put
    <3>5. ASSUME NEW c \in Clients PROVE ~(WriteFails(c) \/ Crash(c) \/ Purge(c))
      BY <1>3 DEF WriteFails, Crash, Purge
    <3>6. ASSUME NEW k \in Keys PROVE ~Damage(k)
      BY <1>3 DEF Damage
    <3> QED
      BY <1>3, <3>1, <3>2, <3>3, <3>4, <3>5, <3>6 DEF Next, Work
  <2>2. CalmNow
    BY <2>1 DEF Calm, CalmNow
  <2>3. CASE \E c \in Clients : Work(c)
    <3> PICK c \in Clients : Work(c)
      BY <2>3
    <3>1. CASE Call(c) \/ Return(c)
      BY <2>2, <3>1, CallCalm, ReturnCalm
    <3>2. CASE Read(c)
      BY <2>2, <3>2, ValidateRootCalm, OpenShardCalm, StatEntryCalm, OpenEntryCalm, ReadMetadataCalm,
         ReadPayloadCalm DEF Read
    <3>3. CASE Remove(c)
      BY <2>2, <3>3, RemoveOpenCalm, RemoveChildCalm, RemoveDirectoryCalm, CalmExcludes DEF Remove
    <3>4. CASE Store(c)
      BY <2>2, <3>4, MakeShardCalm, MakeTempCalm, WriteFileCalm, PublishCalm, CalmExcludes DEF Store
    <3> QED
      BY <2>2, <3>1, <3>2, <3>3, <3>4, CalmExcludes DEF Work
  <2>4. CASE \E c \in Clients : \E k \in Keys : Generate(c, k) \/ Put(c, k)
    BY <2>2, <2>4, GenerateCalm, CalmExcludes
  <2>5. ASSUME NEW c \in Clients PROVE ~(WriteFails(c) \/ Crash(c) \/ Purge(c))
    BY <1>3 DEF WriteFails, Crash, Purge
  <2>6. ASSUME NEW k \in Keys PROVE ~Damage(k)
    BY <1>3 DEF Damage
  <2> QED
    BY <1>3, <2>3, <2>4, <2>5, <2>6 DEF Next
<1> QED
  BY <1>1, <1>2, <1>3

LEMMA CalmAnswers == CacheInv => OneAnswer
<1> SUFFICES ASSUME CacheInv, Calm
             PROVE  LET known == answers \cup UNION {{mem[c][i] : i \in 1 .. Len(mem[c])} :
                                                       c \in {x \in Clients : At(x, "idle")}}
                    IN  \A a, b \in known : a[1] = b[1] => a[2] = b[2]
  BY DEF OneAnswer, Calm
<1>1. CalmNow /\ \A p \in answers : Won(p)
  BY DEF CacheInv, CalmNow, CalmInv
<1>2. ASSUME NEW c \in {x \in Clients : At(x, "idle")}, NEW i \in 1 .. Len(mem[c])
      PROVE  Won(mem[c][i])
  <2>1. me[c] = Idle /\ CalmAt(me[c], mem[c])
    BY <1>1, CalmHere DEF At
  <2> QED
    BY <2>1 DEF CalmAt, Idle
<1> DEFINE known == answers \cup UNION {{mem[c][i] : i \in 1 .. Len(mem[c])} :
                                          c \in {x \in Clients : At(x, "idle")}}
<1>3. \A p \in known : Won(p)
  BY <1>1, <1>2
<1> HIDE DEF known
<1>4. \A a, b \in known : a[1] = b[1] => a[2] = b[2]
  BY <1>3 DEF Won
<1> QED
  BY <1>4 DEF known

\* On a root in use that only providers fill, and as long as no process dies, no write fails, no
\* entry is damaged and nothing is purged: all generate answers for a key are one text, also the
\* ones out of process-local caches, however many providers raced with texts of their own.
THEOREM CacheGivesOneAnswer == Spec => []OneAnswer
<1>1. Init => CacheInv
  BY SafeInit, CalmInit DEF CacheInv
<1>2. CacheInv /\ [Next]_vars => CacheInv'
  BY SafeNext, CalmNext DEF CacheInv
<1> QED
  BY <1>1, <1>2, CalmAnswers, PTL DEF Spec
=============================================================================
