-------------------------- MODULE ImageSearchProofs --------------------------
(***************************************************************************)
(* Proofs about list_images, for every allowlist, any number of            *)
(* repositories and answers of any length: nothing that a registry found   *)
(* is lost or repeated between the goroutines and channels, no goroutine   *)
(* sends into a closed channel, and nothing is asked or offered that the   *)
(* source policy of the build denies.                                      *)
(***************************************************************************)
EXTENDS ImageSearch, SequenceTheorems, FiniteSetTheorems, TLAPS

\* h[p] is what lies at place p.  Nothing lies anywhere twice.
Apart(h) ==
  /\ \A p \in DOMAIN h : IsInjective(h[p])
  /\ \A p, q \in DOMAIN h : p # q => Range(h[p]) \cap Range(h[q]) = {}

Everything(h) == UNION {Range(h[p]) : p \in DOMAIN h}

\* The head of what lies at a is put behind what lies at b.
Moved(h, g, a, b) ==
  /\ h[a] # << >>
  /\ g[a] = Tail(h[a])
  /\ g[b] = Append(h[b], Head(h[a]))
  /\ \A p \in DOMAIN h : p # a /\ p # b => g[p] = h[p]

\* Something new is put at b.
Put(h, g, b) ==
  /\ IsInjective(g[b])
  /\ Range(h[b]) \subseteq Range(g[b])
  /\ (Range(g[b]) \ Range(h[b])) \cap Everything(h) = {}
  /\ \A p \in DOMAIN h : p # b => g[p] = h[p]

-----------------------------------------------------------------------------
\* Taking the head of a sequence without repetition.
LEMMA TakeHead ==
  ASSUME NEW S, NEW s \in Seq(S), s # << >>, IsInjective(s)
  PROVE  /\ Tail(s) \in Seq(S) /\ Head(s) \in S
         /\ IsInjective(Tail(s))
         /\ Head(s) \in Range(s)
         /\ Range(Tail(s)) = Range(s) \ {Head(s)}
<1>1. PICK t \in Seq(S) : t = Tail(s)
  <2>1. Tail(s) \in Seq(S)
    OBVIOUS
  <2>2. QED
    BY <2>1, Zenon
<1>2. /\ Len(s) \in Nat \ {0} /\ Len(t) = Len(s) - 1 /\ Head(s) = s[1]
      /\ DOMAIN s = 1..Len(s) /\ DOMAIN t = 1..Len(t)
      /\ \A i \in 1..Len(t) : t[i] = s[i + 1] /\ i + 1 \in 1..Len(s)
  BY <1>1
<1>3. IsInjective(t)
  <2>1. SUFFICES ASSUME NEW i \in 1..Len(t), NEW j \in 1..Len(t), t[i] = t[j] PROVE i = j
    BY <1>2 DEF IsInjective
  <2>2. i + 1 = j + 1
    BY <1>2, <2>1 DEF IsInjective
  <2>3. QED
    BY <1>2, <2>2
<1>4. 1 \in DOMAIN s
  BY <1>2
<1>5. ASSUME NEW x \in Range(t) PROVE x \in Range(s) /\ x # Head(s)
  <2>1. PICK i \in 1..Len(t) : x = t[i]
    BY <1>2 DEF Range
  <2>2. x = s[i + 1] /\ i + 1 \in DOMAIN s /\ i + 1 # 1
    BY <1>2, <2>1
  <2>3. QED
    BY <1>2, <1>4, <2>2 DEF Range, IsInjective
<1>6. ASSUME NEW x \in Range(s), x # Head(s) PROVE x \in Range(t)
  <2>1. PICK i \in 1..Len(s) : x = s[i]
    BY <1>2 DEF Range
  <2>2. i # 1
    BY <1>2, <1>6, <2>1
  <2>3. i - 1 \in 1..Len(t) /\ i - 1 + 1 = i
    BY <1>2, <2>2
  <2>4. x = t[i - 1]
    BY <1>2, <2>1, <2>3
  <2>5. QED
    BY <1>2, <2>3, <2>4 DEF Range
<1>7. Head(s) \in Range(s) /\ Head(s) \in S
  BY <1>2, <1>4 DEF Range
<1>8. QED
  BY <1>1, <1>3, <1>5, <1>6, <1>7

\* Appending what is not there yet.
LEMMA PutLast ==
  ASSUME NEW S, NEW s \in Seq(S), NEW x \in S
  PROVE  /\ Append(s, x) \in Seq(S)
         /\ Range(Append(s, x)) = Range(s) \cup {x}
         /\ IsInjective(s) /\ x \notin Range(s) => IsInjective(Append(s, x))
<1>1. PICK t \in Seq(S) : t = Append(s, x)
  <2>1. Append(s, x) \in Seq(S)
    OBVIOUS
  <2>2. QED
    BY <2>1, Zenon
<1>2. /\ Len(s) \in Nat /\ Len(t) = Len(s) + 1 /\ t[Len(s) + 1] = x
      /\ DOMAIN s = 1..Len(s) /\ DOMAIN t = 1..(Len(s) + 1)
      /\ \A i \in 1..Len(s) : t[i] = s[i]
  BY <1>1
<1>3. \A i \in DOMAIN t : i \in DOMAIN s \/ i = Len(s) + 1
  BY <1>2
<1>4. Len(s) + 1 \in DOMAIN t /\ \A i \in DOMAIN s : i \in DOMAIN t
  BY <1>2
<1>5. Range(t) = Range(s) \cup {x}
  <2>1. \A y \in Range(t) : y \in Range(s) \cup {x}
    BY <1>2, <1>3 DEF Range
  <2>2. \A y \in Range(s) \cup {x} : y \in Range(t)
    BY <1>2, <1>4 DEF Range
  <2>3. QED
    BY <2>1, <2>2
<1>6. ASSUME IsInjective(s), x \notin Range(s) PROVE IsInjective(t)
  <2>1. SUFFICES ASSUME NEW i \in DOMAIN t, NEW j \in DOMAIN t, t[i] = t[j] PROVE i = j
    BY DEF IsInjective
  <2>2. \A k \in DOMAIN s : t[k] # x
    BY <1>2, <1>6 DEF Range
  <2>3. CASE i \in DOMAIN s /\ j \in DOMAIN s
    BY <1>2, <1>6, <2>1, <2>3 DEF IsInjective
  <2>4. CASE i = Len(s) + 1 \/ j = Len(s) + 1
    BY <1>2, <1>3, <2>1, <2>2, <2>4
  <2>5. QED
    BY <1>3, <2>3, <2>4
<1>7. QED
  BY <1>1, <1>5, <1>6

\* What is moved is still somewhere, and nowhere twice.
LEMMA MoveOne ==
  ASSUME NEW S, NEW P, NEW h \in [P -> Seq(S)], NEW g \in [P -> Seq(S)],
         NEW a \in P, NEW b \in P, a # b, Apart(h), Moved(h, g, a, b)
  PROVE  Apart(g) /\ Everything(g) = Everything(h)
<1>1. PICK x : x = Head(h[a])
  OBVIOUS
<1> USE DEF Moved
<1>2. /\ x \in S /\ x \in Range(h[a]) /\ IsInjective(g[a])
      /\ Range(g[a]) = Range(h[a]) \ {x}
  BY <1>1, TakeHead DEF Apart
<1>3. x \notin Range(h[b])
  BY <1>2 DEF Apart
<1>4. IsInjective(g[b]) /\ Range(g[b]) = Range(h[b]) \cup {x}
  BY <1>1, <1>2, <1>3, PutLast DEF Apart
<1>5. \A p \in P : p # a => x \notin Range(h[p])
  BY <1>2 DEF Apart
<1>6. \A p \in P : IsInjective(g[p])
  BY <1>2, <1>4 DEF Apart
<1>7. ASSUME NEW p \in P, NEW q \in P, p # q PROVE Range(g[p]) \cap Range(g[q]) = {}
  <2>1. Range(h[p]) \cap Range(h[q]) = {}
    BY <1>7 DEF Apart
  <2>2. Range(g[p]) \subseteq (IF p = b THEN Range(h[p]) \cup {x} ELSE Range(h[p]) \ {x})
    BY <1>2, <1>4, <1>5
  <2>3. Range(g[q]) \subseteq (IF q = b THEN Range(h[q]) \cup {x} ELSE Range(h[q]) \ {x})
    BY <1>2, <1>4, <1>5
  <2>4. QED
    BY <1>7, <2>1, <2>2, <2>3
<1>8. Everything(g) = Everything(h)
  <2>1. ASSUME NEW y \in Everything(g) PROVE y \in Everything(h)
    <3>1. PICK p \in P : y \in Range(g[p])
      BY <2>1 DEF Everything
    <3>2. y \in Range(h[p]) \/ y = x
      BY <1>2, <1>4, <3>1
    <3>3. QED
      BY <1>2, <3>2 DEF Everything
  <2>2. ASSUME NEW y \in Everything(h) PROVE y \in Everything(g)
    <3>1. PICK p \in P : y \in Range(h[p])
      BY <2>2 DEF Everything
    <3>2. y \in Range(g[p]) \/ y \in Range(g[b])
      BY <1>2, <1>4, <3>1
    <3>3. QED
      BY <3>2 DEF Everything
  <2>3. QED
    BY <2>1, <2>2
<1>9. QED
  BY <1>6, <1>7, <1>8 DEF Apart

\* A sequence without repetition is as long as its elements are many.
LEMMA LenIsCardinality ==
  ASSUME NEW S, NEW s \in Seq(S), IsInjective(s)
  PROVE  Len(s) = Cardinality(Range(s))
<1>1. PICK n \in Nat : n = Len(s) /\ DOMAIN s = 1..n
  OBVIOUS
<1>2. s \in Bijection(1..n, Range(s))
  <2>1. s \in [1..n -> Range(s)]
    BY <1>1 DEF Range
  <2>2. \A t \in Range(s) : \E i \in 1..n : s[i] = t
    BY <1>1 DEF Range
  <2>3. QED
    BY <1>1, <2>1, <2>2 DEF Bijection, Injection, Surjection, IsInjective
<1>3. ExistsBijection(1..n, Range(s))
  BY <1>2 DEF ExistsBijection
<1>4. Cardinality(Range(s)) = n
  BY <1>3, FS_CountingElements, Zenon
<1>5. QED
  BY <1>1, <1>4

-----------------------------------------------------------------------------
ImageNames == STRING \cup Repos
Images     == [registry : Registries, name : ImageNames]

Steps  == {"none", "start", "search", "collect", "send", "returned"}
Holder == [step : Steps, images : Seq(Images)]

Chan == [buf : Seq(Images), cap : Nat, closed : BOOLEAN]

SearchTypeOK ==
  /\ configured \in SUBSET Written
  /\ allowed \in SUBSET Hosts
  /\ worker \in [Registries -> Holder]
  /\ item \in [Repos -> {"none", "start", "token", "send", "returned"}]
  /\ imageChan \in Chan
  /\ resultChan \in Chan
  /\ results \in Seq(Images)
  /\ found \in SUBSET Images
  /\ contacted \in SUBSET Registries

\* Where images can be between a registry and the caller, but in the hands of
\* the goroutine of a repository.
Places == {"hub", "ghcr", "packages", "channel", "results"}

Held ==
  [p \in Places |->
     IF p = "hub" THEN worker[DockerHub].images
     ELSE IF p = "ghcr" THEN worker[GHCR].images
     ELSE IF p = "packages" THEN imageChan.buf
     ELSE IF p = "channel" THEN resultChan.buf
     ELSE results]

\* What the goroutines of repositories are about to send.
Sending == {ImageOf(GHCR, i) : i \in {j \in Repos : item[j] = "send"}}

\* Every image found is at one place, once, and what a registry has not found
\* yet is nowhere.
FoundInv ==
  /\ Apart(Held)
  /\ found = Everything(Held) \cup Sending
  /\ Everything(Held) \cap Sending = {}
  /\ \A i \in Repos : item[i] \in {"none", "start", "token"} => ImageOf(GHCR, i) \notin found
  /\ worker[DockerHub].step \in {"none", "start", "search"} =>
       \A x \in found : x.registry # DockerHub

Searching == caller \in {"receive", "returned"}

\* A goroutine that has returned has sent everything, and a channel is closed
\* when its senders have returned.
SendersInv ==
  /\ ~Searching => /\ \A r \in Registries : worker[r].step = "none"
                   /\ resultChan.buf = << >> /\ ~resultChan.closed
                   /\ found = {} /\ contacted = {}
  /\ \A r \in Registries :
       worker[r].step \notin {"collect", "send"} => worker[r].images = << >>
  /\ worker[GHCR].step \in {"none", "start", "search"} => \A i \in Repos : item[i] = "none"
  /\ worker[GHCR].step # "collect" =>
       imageChan.buf = << >> /\ \A i \in Repos : item[i] \in {"none", "returned"}
  /\ imageChan.closed => \A i \in Repos : item[i] \in {"none", "returned"}
  /\ resultChan.closed => \A r \in Registries : worker[r].step = "returned"
  /\ caller = "returned" => Drained(resultChan)

\* Only allowed registries are searched, and have found something.
AllowedInv ==
  /\ contacted \subseteq allowed
  /\ \A r \in Registries : worker[r].step \notin {"none", "returned"} => r \in allowed
  /\ \A x \in found : x.registry \in allowed

SearchInv == SearchTypeOK /\ panicked = FALSE /\ FoundInv /\ SendersInv /\ AllowedInv

-----------------------------------------------------------------------------
\* A goroutine that moves on keeps its images.
LEMMA StepSet ==
  ASSUME SearchTypeOK, NEW r \in Registries, NEW s \in Steps,
         worker' = [worker EXCEPT ![r].step = s]
  PROVE  /\ worker' \in [Registries -> Holder]
         /\ worker'[r].step = s
         /\ \A q \in Registries : worker'[q].images = worker[q].images
         /\ \A q \in Registries : q # r => worker'[q] = worker[q]
  BY DEF SearchTypeOK, Holder

\* A goroutine whose images change stays where it is.
LEMMA ImagesSet ==
  ASSUME SearchTypeOK, NEW r \in Registries, NEW s \in Seq(Images),
         worker' = [worker EXCEPT ![r].images = s]
  PROVE  /\ worker' \in [Registries -> Holder]
         /\ worker'[r].images = s
         /\ \A q \in Registries : worker'[q].step = worker[q].step
         /\ \A q \in Registries : q # r => worker'[q] = worker[q]
  BY DEF SearchTypeOK, Holder

LEMMA ChannelOps ==
  ASSUME NEW ch \in Chan
  PROVE  /\ ch.buf \in Seq(Images)
         /\ \A x \in Images : /\ Sent(ch, x) \in Chan
                              /\ Sent(ch, x).buf = Append(ch.buf, x)
                              /\ Sent(ch, x).closed = ch.closed
         /\ ch.buf # << >> => /\ Taken(ch) \in Chan
                              /\ Taken(ch).buf = Tail(ch.buf)
                              /\ Taken(ch).closed = ch.closed
         /\ Closed(ch) \in Chan /\ Closed(ch).buf = ch.buf /\ Closed(ch).closed
<1>1. ch.buf \in Seq(Images) /\ ch.cap \in Nat /\ ch.closed \in BOOLEAN
  BY DEF Chan
<1>2. ASSUME NEW x \in Images
      PROVE  /\ Sent(ch, x) \in Chan
             /\ Sent(ch, x).buf = Append(ch.buf, x)
             /\ Sent(ch, x).closed = ch.closed
  <2>1. PICK s \in Seq(Images) : s = Append(ch.buf, x)
    <3>1. Append(ch.buf, x) \in Seq(Images)
      BY <1>1, PutLast
    <3>2. QED
      BY <3>1, Zenon
  <2>2. LET c == [ch EXCEPT !.buf = s] IN c \in Chan /\ c.buf = s /\ c.closed = ch.closed
    BY DEF Chan
  <2>3. QED
    BY <2>1, <2>2, Zenon DEF Sent
<1>3. ASSUME ch.buf # << >>
      PROVE  /\ Taken(ch) \in Chan
             /\ Taken(ch).buf = Tail(ch.buf)
             /\ Taken(ch).closed = ch.closed
  <2>1. PICK s \in Seq(Images) : s = Tail(ch.buf)
    <3>1. Tail(ch.buf) \in Seq(Images)
      BY <1>1, <1>3
    <3>2. QED
      BY <3>1, Zenon
  <2>2. LET c == [ch EXCEPT !.buf = s] IN c \in Chan /\ c.buf = s /\ c.closed = ch.closed
    BY DEF Chan
  <2>3. QED
    BY <2>1, <2>2, Zenon DEF Taken
<1>4. Closed(ch) \in Chan /\ Closed(ch).buf = ch.buf /\ Closed(ch).closed
  <2>1. PICK yes \in BOOLEAN : yes = TRUE
    BY Zenon
  <2>2. LET c == [ch EXCEPT !.closed = yes] IN c \in Chan /\ c.buf = ch.buf /\ c.closed = yes
    BY DEF Chan
  <2>3. QED
    BY <2>1, <2>2, Zenon DEF Closed
<1>5. QED
  BY <1>1, <1>2, <1>3, <1>4

LEMMA NewChannel ==
  ASSUME NEW n \in Nat
  PROVE  Channel(n) \in Chan /\ Channel(n).buf = << >> /\ Channel(n).closed = FALSE
<1>1. PICK no \in BOOLEAN : no = FALSE
  BY Zenon
<1>2. PICK none \in Seq(Images) : none = << >>
  BY EmptySeq, Zenon
<1>3. LET c == [buf |-> none, cap |-> n, closed |-> no]
      IN  c \in Chan /\ c.buf = none /\ c.closed = no
  BY DEF Chan
<1>4. QED
  BY <1>1, <1>2, <1>3, Zenon DEF Channel

\* What lies where.
HeldFacts ==
  SearchTypeOK =>
    /\ Held \in [Places -> Seq(Images)]
    /\ Held["hub"] = worker[DockerHub].images
    /\ Held["ghcr"] = worker[GHCR].images
    /\ Held["packages"] = imageChan.buf
    /\ Held["channel"] = resultChan.buf
    /\ Held["results"] = results

LEMMA HeldIs == HeldFacts
<1>1. SUFFICES ASSUME SearchTypeOK
               PROVE  /\ Held \in [Places -> Seq(Images)]
                      /\ Held["hub"] = worker[DockerHub].images
                      /\ Held["ghcr"] = worker[GHCR].images
                      /\ Held["packages"] = imageChan.buf
                      /\ Held["channel"] = resultChan.buf
                      /\ Held["results"] = results
  BY Zenon DEF HeldFacts
<1>2. /\ worker[DockerHub].images \in Seq(Images) /\ worker[GHCR].images \in Seq(Images)
      /\ imageChan.buf \in Seq(Images) /\ resultChan.buf \in Seq(Images)
      /\ results \in Seq(Images)
  BY <1>1 DEF SearchTypeOK, Holder, Chan, Registries
<1>3. Held \in [Places -> Seq(Images)]
  BY <1>2 DEF Held, Places
<1>4. QED
  BY <1>3 DEF Held, Places

\* Nothing is moved.
LEMMA SameHeld ==
  ASSUME worker'[DockerHub].images = worker[DockerHub].images,
         worker'[GHCR].images = worker[GHCR].images,
         imageChan'.buf = imageChan.buf, resultChan'.buf = resultChan.buf,
         results' = results
  PROVE  Held' = Held
  BY Zenon DEF Held

LEMMA SameFound ==
  ASSUME FoundInv, Held' = Held, found' = found,
         \A i \in Repos : \/ item'[i] = item[i]
                          \/ /\ item[i] \in {"none", "start", "token"}
                             /\ item'[i] # "send",
         \/ worker'[DockerHub].step \notin {"none", "start", "search"}
         \/ worker[DockerHub].step \in {"none", "start", "search"}
  PROVE  FoundInv'
<1>1. Sending' = Sending
  BY DEF Sending
<1>2. Apart(Held)' = Apart(Held) /\ Everything(Held)' = Everything(Held)
  BY DEF Apart, Everything
<1>3. /\ Apart(Held)'
      /\ found' = Everything(Held)' \cup Sending'
      /\ Everything(Held)' \cap Sending' = {}
  BY <1>1, <1>2, Zenon DEF FoundInv
<1>4. \A i \in Repos : item'[i] \in {"none", "start", "token"} => ImageOf(GHCR, i) \notin found'
  BY DEF FoundInv
<1>5. worker'[DockerHub].step \in {"none", "start", "search"} =>
        \A x \in found' : x.registry # DockerHub
  BY DEF FoundInv
<1>6. QED
  BY <1>3, <1>4, <1>5, Zenon DEF FoundInv

\* An image is moved from place a to place b.
LEMMA MoveHeld ==
  ASSUME SearchInv, SearchTypeOK', NEW a \in Places, NEW b \in Places, a # b,
         Moved(Held, Held', a, b)
  PROVE  Apart(Held') /\ Everything(Held') = Everything(Held)
<1>1. Held \in [Places -> Seq(Images)] /\ Apart(Held)
  BY HeldIs, Zenon DEF HeldFacts, SearchInv, FoundInv
<1>2. Held' \in [Places -> Seq(Images)]
  <2>1. HeldFacts'
    BY HeldIs, PTL
  <2>2. QED
    BY <2>1, Zenon DEF HeldFacts
<1>3. QED
  BY <1>1, <1>2, MoveOne

\* Images are put at place b.
LEMMA PutHeld ==
  ASSUME SearchInv, SearchTypeOK', NEW b \in Places, Put(Held, Held', b)
  PROVE  Apart(Held') /\ Everything(Held') = Everything(Held) \cup Range(Held'[b])
<1>1. Held \in [Places -> Seq(Images)] /\ Apart(Held)
  BY HeldIs, Zenon DEF HeldFacts, SearchInv, FoundInv
<1>2. Held' \in [Places -> Seq(Images)]
  <2>1. HeldFacts'
    BY HeldIs, PTL
  <2>2. QED
    BY <2>1, Zenon DEF HeldFacts
<1>3. PICK h \in [Places -> Seq(Images)] : h = Held
  BY <1>1, Zenon
<1>4. PICK g \in [Places -> Seq(Images)] : g = Held'
  BY <1>2, Zenon
<1>5. Apart(h) /\ Put(h, g, b)
  BY <1>1, <1>3, <1>4, Zenon
<1>6. \A p \in Places : p # b => Range(g[p]) \cap Range(g[b]) = {}
  BY <1>5 DEF Put, Apart, Everything
<1>7. Apart(g)
  <2>1. \A p \in Places : IsInjective(g[p])
    BY <1>5 DEF Put, Apart
  <2>2. \A p, q \in Places : p # q => Range(g[p]) \cap Range(g[q]) = {}
    BY <1>5, <1>6 DEF Put, Apart
  <2>3. QED
    BY <2>1, <2>2 DEF Apart
<1>8. Everything(g) = Everything(h) \cup Range(g[b])
  <2>1. \A p \in Places : Range(h[p]) \subseteq Range(g[p])
    BY <1>5 DEF Put
  <2>2. \A p \in Places : Range(g[p]) \subseteq Range(h[p]) \cup Range(g[b])
    BY <1>5 DEF Put
  <2>3. ASSUME NEW x \in Everything(g) PROVE x \in Everything(h) \cup Range(g[b])
    BY <2>2, <2>3 DEF Everything
  <2>4. ASSUME NEW x \in Everything(h) \cup Range(g[b]) PROVE x \in Everything(g)
    BY <2>1, <2>4 DEF Everything
  <2>5. QED
    BY <2>3, <2>4
<1>9. QED
  BY <1>3, <1>4, <1>7, <1>8, Zenon

\* Images are moved between places only.
LEMMA MovedFound ==
  ASSUME FoundInv, Apart(Held'), Everything(Held') = Everything(Held),
         found' = found, item' = item,
         worker'[DockerHub].step = worker[DockerHub].step
  PROVE  FoundInv'
<1>1. Sending' = Sending
  BY DEF Sending
<1>2. Apart(Held)' /\ Everything(Held)' = Everything(Held)
  BY DEF Apart, Everything
<1>3. QED
  BY <1>1, <1>2, Zenon DEF FoundInv

\* A normalized allowlist consists of hosts, and normalizing it again keeps it.
LEMMA NormalizedHosts ==
  ASSUME NEW c \in SUBSET Written
  PROVE  NormalizeAllowedRegistries(c) \in SUBSET Hosts
<1>1. ASSUME NEW w \in c, HostOf[w] # Blank, HostOf[w] # Malformed
      PROVE  HostOf[w] \in Hosts
  BY <1>1, PolicyAssumption
<1>2. QED
  BY <1>1 DEF NormalizeAllowedRegistries, Invalid, Hosts

LEMMA NormalizedTwice ==
  ASSUME NEW a \in SUBSET Hosts, a # {}
  PROVE  NormalizeAllowedRegistries(a) = a
<1>1. {HostOf[w] : w \in a} = a
  BY PolicyAssumption
<1>2. Blank \notin a /\ Malformed \notin a
  BY PolicyAssumption
<1>3. QED
  BY <1>1, <1>2 DEF NormalizeAllowedRegistries

LEMMA InitSearchInv == SearchInit => SearchInv
<1>1. SUFFICES ASSUME SearchInit PROVE SearchInv
  OBVIOUS
<1>2. << >> \in Seq(Images)
  BY EmptySeq
<1>3. /\ imageChan \in Chan /\ imageChan.buf = << >> /\ imageChan.closed = FALSE
      /\ resultChan \in Chan /\ resultChan.buf = << >> /\ resultChan.closed = FALSE
  BY <1>1, NewChannel, Zenon DEF SearchInit
<1>4. \A r \in Registries : worker[r].step = "none" /\ worker[r].images = << >>
  BY <1>1, Zenon DEF SearchInit
<1>5. worker \in [Registries -> Holder]
  BY <1>1, <1>2 DEF SearchInit, Holder, Steps
<1>6. SearchTypeOK
  BY <1>1, <1>2, <1>3, <1>5, SearchAssumption DEF SearchInit, SearchTypeOK, Invalid
<1>7. \A p \in Places : Held[p] = << >>
  BY <1>1, <1>3, <1>4, Zenon DEF Held, SearchInit, Registries
<1>8. \A p \in Places : Range(Held[p]) = {} /\ IsInjective(Held[p])
  BY <1>7 DEF Range, IsInjective
<1>9. DOMAIN Held = Places
  BY DEF Held
<1>10. Apart(Held) /\ Everything(Held) = {}
  BY <1>8, <1>9 DEF Apart, Everything
<1>11. Sending = {}
  BY <1>1 DEF Sending, SearchInit
<1>12. FoundInv
  BY <1>1, <1>10, <1>11, Zenon DEF FoundInv, SearchInit
<1>13. SendersInv
  BY <1>1, <1>3, <1>4 DEF SendersInv, SearchInit, Searching, Registries
<1>14. AllowedInv
  BY <1>1, <1>4 DEF AllowedInv, SearchInit
<1>15. QED
  BY <1>1, <1>6, <1>12, <1>13, <1>14 DEF SearchInv, SearchInit

-----------------------------------------------------------------------------
\* The steps of the caller and of the goroutine that closes the results.

LEMMA ConfigureKeeps ==
  ASSUME SearchInv, Configure
  PROVE  SearchInv'
<1>1. allowed' \in SUBSET Hosts
  BY NormalizedHosts DEF SearchInv, SearchTypeOK, Configure
<1>2. SearchTypeOK'
  BY <1>1 DEF SearchInv, SearchTypeOK, Configure, packages, answer, history
<1>3. Held' = Held
  BY SameHeld DEF Configure, packages, answer
<1>4. FoundInv'
  BY <1>3, SameFound DEF SearchInv, Configure, packages, history
<1>5. SendersInv'
  BY DEF SearchInv, SendersInv, Configure, Searching, packages, answer, history, Drained
<1>6. found' = {} /\ contacted' = {} /\ \A r \in Registries : worker'[r].step = "none"
  BY DEF SearchInv, SendersInv, Configure, Searching, history
<1>7. AllowedInv'
  BY <1>6 DEF AllowedInv
<1>8. QED
  BY <1>2, <1>4, <1>5, <1>7 DEF SearchInv, Configure

LEMMA RefuseQueryKeeps ==
  ASSUME SearchInv, RefuseQuery
  PROVE  SearchInv'
<1>1. SearchTypeOK'
  BY DEF SearchInv, SearchTypeOK, RefuseQuery, run, packages, answer, history
<1>2. Held' = Held
  BY SameHeld DEF RefuseQuery, packages, answer
<1>3. FoundInv'
  BY <1>2, SameFound DEF SearchInv, RefuseQuery, packages, history
<1>4. SendersInv'
  BY DEF SearchInv, SendersInv, RefuseQuery, Searching, packages, answer, history, Drained
<1>5. AllowedInv'
  BY DEF SearchInv, AllowedInv, RefuseQuery, run, history
<1>6. QED
  BY <1>1, <1>3, <1>4, <1>5 DEF SearchInv, RefuseQuery

LEMMA ListImagesKeeps ==
  ASSUME SearchInv, ListImages
  PROVE  SearchInv'
<1> DEFINE registries == SearchableRegistries(allowed)
<1>1. registries \subseteq {DockerHub, GHCR} /\ registries \subseteq allowed
  BY DEF SearchableRegistries
<1>2. Cardinality(registries) \in Nat
  <2>1. IsFiniteSet(registries)
    <3>1. IsFiniteSet({DockerHub})
      BY FS_Singleton
    <3>2. IsFiniteSet({DockerHub} \cup {GHCR})
      BY <3>1, FS_AddElement
    <3>3. registries \subseteq {DockerHub} \cup {GHCR}
      BY <1>1
    <3>4. QED
      BY <3>2, <3>3, FS_Subset
  <2>2. QED
    BY <2>1, FS_CardinalityType
<1>3. MaxPerRegistry * Cardinality(registries) \in Nat
  BY <1>2, SearchAssumption
<1>4. resultChan' \in Chan /\ resultChan'.buf = << >> /\ resultChan'.closed = FALSE
  BY <1>3, NewChannel, Zenon DEF ListImages
<1>5. /\ worker' \in [Registries -> Holder]
      /\ \A r \in Registries : /\ worker'[r].images = worker[r].images
                               /\ worker'[r].step = IF r \in registries THEN "start" ELSE "returned"
  BY DEF ListImages, SearchInv, SearchTypeOK, Holder, Steps
<1>6. SearchTypeOK'
  BY <1>4, <1>5 DEF SearchInv, SearchTypeOK, ListImages, run, packages, history
<1>7. ~Searching
  BY DEF ListImages, Searching
<1>8. Held' = Held
  BY <1>4, <1>5, <1>7, SameHeld DEF ListImages, packages, SearchInv, SendersInv, Registries
<1>9. FoundInv'
  BY <1>7, <1>8, SameFound DEF SearchInv, SendersInv, ListImages, packages, history, Registries
<1>10. SendersInv'
  BY <1>4, <1>5, <1>7 DEF SearchInv, SendersInv, ListImages, Searching, packages, history, Registries
<1>11. AllowedInv'
  BY <1>1, <1>5 DEF SearchInv, AllowedInv, ListImages, run, history
<1>12. QED
  BY <1>6, <1>9, <1>10, <1>11 DEF SearchInv, ListImages

LEMMA ReceiveKeeps ==
  ASSUME SearchInv, Receive
  PROVE  SearchInv'
<1>1. SearchTypeOK
  BY DEF SearchInv
<1>2. /\ resultChan.buf # << >> /\ resultChan.buf \in Seq(Images)
      /\ results \in Seq(Images) /\ resultChan \in Chan
  BY <1>1, ChannelOps DEF SearchTypeOK, Receive
<1>3. /\ resultChan' \in Chan /\ resultChan'.buf = Tail(resultChan.buf)
      /\ resultChan'.closed = resultChan.closed
  BY <1>2, ChannelOps, Zenon DEF Receive
<1>4. results' \in Seq(Images)
  BY <1>2 DEF Receive
<1>5. SearchTypeOK'
  BY <1>1, <1>3, <1>4 DEF SearchTypeOK, Receive, run, packages, history
<1>6. /\ Held["channel"] # << >>
      /\ Held'["channel"] = Tail(Held["channel"])
      /\ Held'["results"] = Append(Held["results"], Head(Held["channel"]))
      /\ Held'["hub"] = Held["hub"] /\ Held'["ghcr"] = Held["ghcr"]
      /\ Held'["packages"] = Held["packages"]
  <2>1. HeldFacts'
    BY HeldIs, PTL
  <2>2. QED
    BY <1>1, <1>2, <1>3, <1>5, <2>1, HeldIs, Zenon DEF HeldFacts, Receive, packages
<1>7. Apart(Held') /\ Everything(Held') = Everything(Held)
  <2>1. "channel" \in Places /\ "results" \in Places /\ DOMAIN Held = Places
    BY DEF Places, Held
  <2>2. Moved(Held, Held', "channel", "results")
    BY <1>6, <2>1 DEF Moved, Places
  <2>3. QED
    BY <1>5, <2>1, <2>2, MoveHeld
<1>8. FoundInv'
  BY <1>7, MovedFound DEF SearchInv, Receive, packages, history
<1>9. SendersInv'
  BY <1>3 DEF SearchInv, SendersInv, Receive, Searching, packages, history
<1>10. AllowedInv'
  BY DEF SearchInv, AllowedInv, Receive, run, history
<1>11. QED
  BY <1>5, <1>8, <1>9, <1>10 DEF SearchInv, Receive

LEMMA ReturnKeeps ==
  ASSUME SearchInv, Return
  PROVE  SearchInv'
<1>1. SearchTypeOK'
  BY DEF SearchInv, SearchTypeOK, Return, run, packages, answer, history
<1>2. Held' = Held
  BY SameHeld DEF Return, packages, answer
<1>3. FoundInv'
  BY <1>2, SameFound DEF SearchInv, Return, packages, history
<1>4. SendersInv'
  BY DEF SearchInv, SendersInv, Return, Searching, packages, answer, history, Drained
<1>5. AllowedInv'
  BY DEF SearchInv, AllowedInv, Return, run, history
<1>6. QED
  BY <1>1, <1>3, <1>4, <1>5 DEF SearchInv, Return

LEMMA CloseResultsKeeps ==
  ASSUME SearchInv, CloseResults
  PROVE  SearchInv'
<1>1. /\ resultChan' \in Chan /\ resultChan'.buf = resultChan.buf /\ resultChan'.closed
  BY ChannelOps DEF SearchInv, SearchTypeOK, CloseResults
<1>2. SearchTypeOK'
  BY <1>1 DEF SearchInv, SearchTypeOK, CloseResults, run, packages, history
<1>3. Held' = Held
  BY <1>1, SameHeld DEF CloseResults, packages
<1>4. FoundInv'
  BY <1>3, SameFound DEF SearchInv, CloseResults, packages, history
<1>5. SendersInv'
  BY <1>1 DEF SearchInv, SendersInv, CloseResults, Searching, packages, history
<1>6. AllowedInv'
  BY DEF SearchInv, AllowedInv, CloseResults, run, history
<1>7. QED
  BY <1>2, <1>4, <1>5, <1>6 DEF SearchInv, CloseResults

LEMMA ContextEndsKeeps ==
  ASSUME SearchInv, ContextEnds
  PROVE  SearchInv'
<1>1. SearchTypeOK'
  BY DEF SearchInv, SearchTypeOK, ContextEnds, run, packages, answer, history
<1>2. Held' = Held
  BY SameHeld DEF ContextEnds, packages, answer
<1>3. FoundInv'
  BY <1>2, SameFound DEF SearchInv, ContextEnds, packages, history
<1>4. SendersInv'
  BY DEF SearchInv, SendersInv, ContextEnds, Searching, packages, answer, history, Drained
<1>5. AllowedInv'
  BY DEF SearchInv, AllowedInv, ContextEnds, run, history
<1>6. QED
  BY <1>1, <1>3, <1>4, <1>5 DEF SearchInv, ContextEnds

-----------------------------------------------------------------------------
\* The steps of a registry's goroutine.

LEMMA SearchKeeps ==
  ASSUME SearchInv, NEW r \in Registries, Search(r)
  PROVE  SearchInv'
<1>1. PICK s \in {"returned", "search"} :
        /\ worker' = [worker EXCEPT ![r].step = s]
        /\ s = IF ctxDone THEN "returned" ELSE "search"
  BY DEF Search
<1>2. /\ worker' \in [Registries -> Holder] /\ worker'[r].step = s
      /\ \A q \in Registries : worker'[q].images = worker[q].images
      /\ \A q \in Registries : q # r => worker'[q] = worker[q]
  <2>1. s \in Steps /\ SearchTypeOK
    BY DEF Steps, SearchInv
  <2>2. QED
    BY <1>1, <2>1, StepSet, Zenon
<1>3. worker[r].step = "start" /\ r \in allowed /\ Searching
  BY DEF Search, SearchInv, AllowedInv, SendersInv
<1>4. SearchTypeOK'
  BY <1>2 DEF SearchInv, SearchTypeOK, Search, run, packages, answer
<1>5. Held' = Held
  BY <1>2, SameHeld DEF Search, packages, answer, Registries
<1>6. FoundInv'
  BY <1>2, <1>3, <1>5, SameFound DEF SearchInv, Search, packages, Registries
<1>7. SendersInv'
  BY <1>2, <1>3 DEF SearchInv, SendersInv, Search, Searching, packages, answer, Drained, Registries
<1>8. AllowedInv'
  BY <1>2, <1>3 DEF SearchInv, AllowedInv, Search, run
<1>9. QED
  BY <1>4, <1>6, <1>7, <1>8 DEF SearchInv, Search

LEMMA FailKeeps ==
  ASSUME SearchInv, NEW r \in Registries, Fail(r)
  PROVE  SearchInv'
<1>1. /\ worker' \in [Registries -> Holder] /\ worker'[r].step = "returned"
      /\ \A q \in Registries : worker'[q].images = worker[q].images
      /\ \A q \in Registries : q # r => worker'[q] = worker[q]
  <2>1. "returned" \in Steps /\ SearchTypeOK
    BY DEF Steps, SearchInv
  <2>2. QED
    BY <2>1, StepSet, Zenon DEF Fail
<1>2. worker[r].step = "search" /\ Searching
  BY DEF Fail, SearchInv, SendersInv
<1>3. SearchTypeOK'
  BY <1>1 DEF SearchInv, SearchTypeOK, Fail, run, packages, answer, history
<1>4. Held' = Held
  BY <1>1, SameHeld DEF Fail, packages, answer, Registries
<1>5. FoundInv'
  BY <1>1, <1>2, <1>4, SameFound DEF SearchInv, Fail, packages, history, Registries
<1>6. SendersInv'
  BY <1>1, <1>2 DEF SearchInv, SendersInv, Fail, Searching, packages, answer, history, Drained, Registries
<1>7. AllowedInv'
  BY <1>1 DEF SearchInv, AllowedInv, Fail, run, history
<1>8. QED
  BY <1>3, <1>5, <1>6, <1>7 DEF SearchInv, Fail

LEMMA SendResultKeeps ==
  ASSUME SearchInv, NEW r \in Registries, SendResult(r)
  PROVE  SearchInv'
<1>1. SearchTypeOK /\ worker[r].step = "send" /\ Searching /\ resultChan.closed = FALSE
  BY DEF SearchInv, SearchTypeOK, SendResult, SendersInv, Chan
<1>2. worker[r].images \in Seq(Images) /\ resultChan \in Chan
  BY <1>1 DEF SearchTypeOK, Holder
<1>3. CASE /\ worker[r].images # << >>
           /\ panicked' = resultChan.closed
           /\ resultChan' = Sent(resultChan, Head(worker[r].images))
           /\ worker' = [worker EXCEPT ![r].images = Tail(worker[r].images)]
           /\ UNCHANGED <<run, caller, ctxDone, packages, results, history>>
  <2>1. PICK x \in Images : x = Head(worker[r].images)
    BY <1>2, <1>3
  <2>2. PICK t \in Seq(Images) : t = Tail(worker[r].images)
    <3>1. Tail(worker[r].images) \in Seq(Images)
      BY <1>2, <1>3
    <3>2. QED
      BY <3>1, Zenon
  <2>3. /\ worker' \in [Registries -> Holder] /\ worker'[r].images = Tail(worker[r].images)
        /\ \A q \in Registries : worker'[q].step = worker[q].step
        /\ \A q \in Registries : q # r => worker'[q] = worker[q]
    BY <1>1, <1>3, <2>2, ImagesSet, Zenon
  <2>4. /\ resultChan' \in Chan /\ resultChan'.buf = Append(resultChan.buf, Head(worker[r].images))
        /\ resultChan'.closed = FALSE
    BY <1>1, <1>2, <1>3, <2>1, ChannelOps, Zenon
  <2>5. SearchTypeOK'
    BY <1>1, <1>3, <2>3, <2>4 DEF SearchTypeOK, run, packages, history
  <2> DEFINE a == IF r = DockerHub THEN "hub" ELSE "ghcr"
  <2>6. /\ Held[a] = worker[r].images /\ Held'[a] = worker'[r].images
        /\ Held["channel"] = resultChan.buf /\ Held'["channel"] = resultChan'.buf
        /\ \A p \in Places : p # a /\ p # "channel" => Held'[p] = Held[p]
    <3>1. HeldFacts'
      BY HeldIs, PTL
    <3>2. HeldFacts
      BY HeldIs
    <3>3. /\ worker'[DockerHub].images = worker[DockerHub].images \/ r = DockerHub
          /\ worker'[GHCR].images = worker[GHCR].images \/ r = GHCR
          /\ DockerHub # GHCR /\ r \in {DockerHub, GHCR}
      BY <2>3, PolicyAssumption DEF Registries
    <3>4. QED
      BY <1>1, <1>3, <2>5, <3>1, <3>2, <3>3 DEF HeldFacts, packages, Places
  <2>7. a \in Places /\ "channel" \in Places /\ a # "channel" /\ DOMAIN Held = Places
    BY DEF Places, Held
  <2>8. Moved(Held, Held', a, "channel")
    BY <1>3, <2>3, <2>4, <2>6, <2>7, Zenon DEF Moved
  <2>9. Apart(Held') /\ Everything(Held') = Everything(Held)
    BY <2>5, <2>7, <2>8, MoveHeld
  <2>10. FoundInv'
    BY <1>3, <2>3, <2>9, MovedFound DEF SearchInv, packages, history, Registries
  <2>11. SendersInv'
    BY <1>1, <1>3, <2>3, <2>4
       DEF SearchInv, SendersInv, Searching, packages, history, Drained, Registries
  <2>12. AllowedInv'
    BY <1>3, <2>3 DEF SearchInv, AllowedInv, run, history
  <2>13. QED
    BY <1>1, <1>3, <2>5, <2>10, <2>11, <2>12 DEF SearchInv
<1>4. CASE /\ worker[r].images = << >>
           /\ worker' = [worker EXCEPT ![r].step = "returned"]
           /\ UNCHANGED <<resultChan, panicked>>
           /\ UNCHANGED <<run, caller, ctxDone, packages, results, history>>
  <2>1. /\ worker' \in [Registries -> Holder] /\ worker'[r].step = "returned"
        /\ \A q \in Registries : worker'[q].images = worker[q].images
        /\ \A q \in Registries : q # r => worker'[q] = worker[q]
    <3>1. "returned" \in Steps
      BY DEF Steps
    <3>2. QED
      BY <1>1, <1>4, <3>1, StepSet, Zenon
  <2>2. SearchTypeOK'
    BY <1>1, <1>4, <2>1 DEF SearchTypeOK, run, packages, history
  <2>3. Held' = Held
    BY <1>4, <2>1, SameHeld DEF packages, Registries
  <2>4. FoundInv'
    BY <1>1, <1>4, <2>1, <2>3, SameFound DEF SearchInv, packages, history, Registries
  <2>5. SendersInv'
    BY <1>1, <1>4, <2>1
       DEF SearchInv, SendersInv, Searching, packages, history, Drained, Registries
  <2>6. AllowedInv'
    BY <1>4, <2>1 DEF SearchInv, AllowedInv, run, history
  <2>7. QED
    BY <1>4, <2>2, <2>4, <2>5, <2>6 DEF SearchInv
<1>5. QED
  BY <1>3, <1>4 DEF SendResult

-----------------------------------------------------------------------------
\* The answers of the registries.

\* What Docker Hub lists becomes as many different images.
LEMMA HubImages ==
  ASSUME NEW names \in HubAnswers, NEW images,
         images = [i \in DOMAIN names |-> ImageOf(DockerHub, names[i])]
  PROVE  /\ images \in Seq(Images)
         /\ IsInjective(images)
         /\ \A x \in Range(images) : x \in Images /\ x.registry = DockerHub
<1>1. names \in Seq(STRING) /\ IsInjective(names)
  BY SearchAssumption
<1>2. PICK n \in Nat : DOMAIN names = 1..n /\ \A i \in 1..n : names[i] \in STRING
  BY <1>1
<1>3. \A i \in 1..n : /\ images[i] \in Images
                      /\ images[i].registry = DockerHub /\ images[i].name = names[i]
  BY <1>2 DEF ImageOf, Images, ImageNames, Registries
<1>4. images \in [1..n -> Images]
  BY <1>2, <1>3
<1>5. images \in Seq(Images)
  BY <1>4
<1>6. IsInjective(images)
  BY <1>1, <1>2, <1>3 DEF IsInjective
<1>7. QED
  BY <1>2, <1>3, <1>5, <1>6 DEF Range

LEMMA AnswerHubKeeps ==
  ASSUME SearchInv, AnswerHub
  PROVE  SearchInv'
<1>1. PICK names \in HubAnswers :
        /\ worker[DockerHub].step = "search"
        /\ worker' = [worker EXCEPT ![DockerHub] =
                        [step |-> "send",
                         images |-> [i \in DOMAIN names |-> ImageOf(DockerHub, names[i])]]]
        /\ found' = found \cup Range([i \in DOMAIN names |-> ImageOf(DockerHub, names[i])])
        /\ UNCHANGED <<run, caller, ctxDone, packages, answer, panicked, contacted>>
  BY DEF AnswerHub
<1>2. PICK images \in Seq(Images) :
        /\ images = [i \in DOMAIN names |-> ImageOf(DockerHub, names[i])]
        /\ IsInjective(images)
        /\ \A x \in Range(images) : x \in Images /\ x.registry = DockerHub
  BY HubImages, Zenon
<1>3. /\ worker' = [worker EXCEPT ![DockerHub] = [step |-> "send", images |-> images]]
      /\ found' = found \cup Range(images)
  BY <1>1, <1>2, Zenon
<1>4. SearchTypeOK /\ Searching /\ worker[DockerHub].images = << >> /\ DockerHub # GHCR
  BY <1>1, PolicyAssumption DEF SearchInv, SendersInv, Registries
<1>5. /\ worker' \in [Registries -> Holder] /\ worker'[GHCR] = worker[GHCR]
      /\ worker'[DockerHub].step = "send" /\ worker'[DockerHub].images = images
  BY <1>3, <1>4 DEF SearchTypeOK, Holder, Steps, Registries
<1>6. SearchTypeOK'
  BY <1>1, <1>2, <1>3, <1>4, <1>5 DEF SearchTypeOK, run, packages, answer
<1>7. /\ Held["hub"] = << >> /\ Held'["hub"] = images
      /\ \A p \in Places : p # "hub" => Held'[p] = Held[p]
  <2>1. HeldFacts'
    BY HeldIs, PTL
  <2>2. HeldFacts
    BY HeldIs
  <2>3. QED
    BY <1>1, <1>4, <1>5, <1>6, <2>1, <2>2 DEF HeldFacts, packages, answer, Places
<1>8. \A x \in found : x.registry # DockerHub
  BY <1>1 DEF SearchInv, FoundInv
<1>9. Everything(Held) \subseteq found /\ found = Everything(Held) \cup Sending
  BY DEF SearchInv, FoundInv
<1>10. Apart(Held') /\ Everything(Held') = Everything(Held) \cup Range(images)
  <2>1. "hub" \in Places /\ DOMAIN Held = Places
    BY DEF Places, Held
  <2>2. Put(Held, Held', "hub")
    <3>1. Range(<< >>) = {}
      BY DEF Range
    <3>2. Range(images) \cap Everything(Held) = {}
      BY <1>2, <1>8, <1>9
    <3>3. QED
      BY <1>2, <1>7, <2>1, <3>1, <3>2 DEF Put
  <2>3. QED
    BY <1>6, <1>7, <2>1, <2>2, PutHeld
<1>11. Sending' = Sending
  BY <1>1 DEF Sending, packages
<1>12. FoundInv'
  <2>1. /\ Apart(Held') /\ found' = Everything(Held') \cup Sending'
    BY <1>3, <1>9, <1>10, <1>11
  <2>2. Everything(Held') \cap Sending' = {}
    <3>1. Sending \subseteq found /\ Everything(Held) \cap Sending = {}
      BY DEF SearchInv, FoundInv
    <3>2. QED
      BY <1>2, <1>8, <1>10, <1>11, <3>1
  <2>3. \A i \in Repos : item'[i] \in {"none", "start", "token"} => ImageOf(GHCR, i) \notin found'
    <3>1. \A i \in Repos : ImageOf(GHCR, i).registry # DockerHub
      BY <1>4 DEF ImageOf
    <3>2. QED
      BY <1>1, <1>2, <1>3, <3>1 DEF SearchInv, FoundInv, packages
  <2>4. QED
    BY <1>5, <2>1, <2>2, <2>3 DEF FoundInv, Apart, Everything
<1>13. SendersInv'
  BY <1>1, <1>4, <1>5
     DEF SearchInv, SendersInv, Searching, packages, answer, Drained, Registries
<1>14. AllowedInv'
  BY <1>1, <1>2, <1>3, <1>5 DEF SearchInv, AllowedInv, run, Registries
<1>15. QED
  BY <1>1, <1>6, <1>12, <1>13, <1>14 DEF SearchInv

LEMMA AnswerGitHubKeeps ==
  ASSUME SearchInv, AnswerGitHub
  PROVE  SearchInv'
<1>1. PICK items \in SUBSET Repos :
        /\ worker[GHCR].step = "search"
        /\ worker' = [worker EXCEPT ![GHCR].step = "collect"]
        /\ item' = [i \in Repos |-> IF i \in items THEN "start" ELSE "returned"]
        /\ imageChan' = Channel(Cardinality(items))
        /\ UNCHANGED <<run, caller, ctxDone, answer, panicked, history>>
  BY DEF AnswerGitHub
<1>2. Cardinality(items) \in Nat
  BY SearchAssumption, FS_Subset, FS_CardinalityType
<1>3. imageChan' \in Chan /\ imageChan'.buf = << >> /\ imageChan'.closed = FALSE
  BY <1>1, <1>2, NewChannel, Zenon
<1>4. /\ worker' \in [Registries -> Holder] /\ worker'[GHCR].step = "collect"
      /\ \A q \in Registries : worker'[q].images = worker[q].images
      /\ worker'[DockerHub] = worker[DockerHub]
  <2>1. "collect" \in Steps /\ SearchTypeOK /\ GHCR \in Registries
        /\ DockerHub \in Registries /\ DockerHub # GHCR
    BY PolicyAssumption DEF Steps, SearchInv, Registries
  <2>2. QED
    BY <1>1, <2>1, StepSet, Zenon
<1>5. Searching /\ imageChan.buf = << >> /\ \A i \in Repos : item[i] = "none"
  BY <1>1 DEF SearchInv, SendersInv, Registries
<1>6. SearchTypeOK'
  BY <1>1, <1>3, <1>4 DEF SearchInv, SearchTypeOK, run, answer, history
<1>7. Held' = Held
  BY <1>1, <1>3, <1>4, <1>5, SameHeld DEF answer, Registries
<1>8. FoundInv'
  <2>1. \A i \in Repos : item[i] \in {"none", "start", "token"} /\ item'[i] # "send"
    BY <1>1, <1>5
  <2>2. QED
    BY <1>1, <1>4, <1>7, <2>1, SameFound DEF SearchInv, history
<1>9. SendersInv'
  BY <1>1, <1>3, <1>4, <1>5, PolicyAssumption
     DEF SearchInv, SendersInv, Searching, answer, history, Drained, Registries
<1>10. AllowedInv'
  BY <1>1, <1>4 DEF SearchInv, AllowedInv, run, history, Registries
<1>11. QED
  BY <1>1, <1>6, <1>8, <1>9, <1>10 DEF SearchInv

-----------------------------------------------------------------------------
\* The steps of a repository's goroutine, and of searchGHCR around them.

\* While a goroutine of a repository runs, searchGHCR collects and its channel
\* is open.
LEMMA Collecting ==
  ASSUME SearchInv, NEW i \in Repos, item[i] \in {"start", "token", "send"}
  PROVE  worker[GHCR].step = "collect" /\ imageChan.closed = FALSE /\ Searching
  BY DEF SearchInv, SearchTypeOK, SendersInv, Chan, Registries

LEMMA AskTokenKeeps ==
  ASSUME SearchInv, NEW i \in Repos, AskToken(i)
  PROVE  SearchInv'
<1>1. worker[GHCR].step = "collect" /\ imageChan.closed = FALSE /\ Searching
  BY Collecting DEF AskToken
<1>2. /\ item' \in [Repos -> {"none", "start", "token", "send", "returned"}]
      /\ item[i] = "start" /\ item'[i] \in {"token", "returned"}
      /\ \A j \in Repos : j # i => item'[j] = item[j]
  BY DEF AskToken, SearchInv, SearchTypeOK
<1>3. SearchTypeOK'
  BY <1>2 DEF SearchInv, SearchTypeOK, AskToken, run, answer, history
<1>4. Held' = Held
  BY SameHeld DEF AskToken, answer
<1>5. FoundInv'
  BY <1>2, <1>4, SameFound DEF SearchInv, AskToken, history
<1>6. SendersInv'
  BY <1>1, <1>2
     DEF SearchInv, SendersInv, AskToken, Searching, answer, history, Drained, Registries
<1>7. AllowedInv'
  BY DEF SearchInv, AllowedInv, AskToken, run, history
<1>8. QED
  BY <1>3, <1>5, <1>6, <1>7 DEF SearchInv, AskToken

LEMMA HasPackageKeeps ==
  ASSUME SearchInv, NEW i \in Repos, HasPackage(i)
  PROVE  SearchInv'
<1>1. worker[GHCR].step = "collect" /\ imageChan.closed = FALSE /\ Searching
  BY Collecting DEF HasPackage
<1>2. /\ item' \in [Repos -> {"none", "start", "token", "send", "returned"}]
      /\ item[i] = "token" /\ item'[i] \in {"send", "returned"}
      /\ \A j \in Repos : j # i => item'[j] = item[j]
  BY DEF HasPackage, SearchInv, SearchTypeOK
<1>3. Held' = Held
  BY SameHeld DEF HasPackage, answer
<1>4. found' = found \/ found' = found \cup {ImageOf(GHCR, i)}
  BY DEF HasPackage
<1>5. ImageOf(GHCR, i) \in Images /\ ImageOf(GHCR, i).registry = GHCR
  BY DEF ImageOf, Images, ImageNames, Registries
<1>6. SearchTypeOK'
  BY <1>2, <1>4, <1>5 DEF SearchInv, SearchTypeOK, HasPackage, run, answer
<1>7. FoundInv'
  <2>1. CASE item' = [item EXCEPT ![i] = "send"] /\ found' = found \cup {ImageOf(GHCR, i)}
    <3>1. Sending' = Sending \cup {ImageOf(GHCR, i)}
      BY <1>2, <2>1 DEF Sending
    <3>2. ImageOf(GHCR, i) \notin found
      BY <1>2 DEF SearchInv, FoundInv
    <3>3. Apart(Held)' = Apart(Held) /\ Everything(Held)' = Everything(Held)
      BY <1>3 DEF Apart, Everything
    <3>4. /\ Apart(Held)'
          /\ found' = Everything(Held)' \cup Sending'
          /\ Everything(Held)' \cap Sending' = {}
      <4>1. /\ Apart(Held) /\ found = Everything(Held) \cup Sending
            /\ Everything(Held) \cap Sending = {}
        BY DEF SearchInv, FoundInv
      <4>2. QED
        BY <2>1, <3>1, <3>2, <3>3, <4>1
    <3>5. \A j \in Repos : item'[j] \in {"none", "start", "token"} => ImageOf(GHCR, j) \notin found'
      <4>1. \A j \in Repos : j # i => ImageOf(GHCR, j) # ImageOf(GHCR, i)
        BY DEF ImageOf
      <4>2. item'[i] = "send"
        BY <1>2, <2>1 DEF SearchInv, SearchTypeOK
      <4>3. QED
        BY <1>2, <2>1, <4>1, <4>2 DEF SearchInv, FoundInv
    <3>6. worker'[DockerHub].step \in {"none", "start", "search"} =>
            \A x \in found' : x.registry # DockerHub
      BY <1>5, <2>1, PolicyAssumption DEF SearchInv, FoundInv, HasPackage
    <3>7. QED
      BY <3>4, <3>5, <3>6, Zenon DEF FoundInv
  <2>2. CASE item' = [item EXCEPT ![i] = "returned"] /\ found' = found
    <3>1. item'[i] # "send"
      BY <1>2, <2>2 DEF SearchInv, SearchTypeOK
    <3>2. QED
      BY <1>2, <1>3, <2>2, <3>1, SameFound DEF SearchInv, HasPackage
  <2>3. QED
    BY <2>1, <2>2 DEF HasPackage
<1>8. SendersInv'
  BY <1>1, <1>2
     DEF SearchInv, SendersInv, HasPackage, Searching, answer, Drained, Registries
<1>9. AllowedInv'
  <2>1. GHCR \in allowed
    BY <1>1 DEF SearchInv, AllowedInv, Registries
  <2>2. QED
    BY <1>4, <1>5, <2>1 DEF SearchInv, AllowedInv, HasPackage, run
<1>10. QED
  BY <1>6, <1>7, <1>8, <1>9 DEF SearchInv, HasPackage

LEMMA SendImageKeeps ==
  ASSUME SearchInv, NEW i \in Repos, SendImage(i)
  PROVE  SearchInv'
<1>1. worker[GHCR].step = "collect" /\ imageChan.closed = FALSE /\ Searching
  BY Collecting DEF SendImage
<1>2. /\ item' \in [Repos -> {"none", "start", "token", "send", "returned"}]
      /\ item[i] = "send" /\ item'[i] = "returned"
      /\ \A j \in Repos : j # i => item'[j] = item[j]
  BY DEF SendImage, SearchInv, SearchTypeOK
<1>3. PICK x \in Images : x = ImageOf(GHCR, i)
  BY DEF ImageOf, Images, ImageNames, Registries
<1>4. /\ imageChan' \in Chan /\ imageChan'.buf = Append(imageChan.buf, x)
      /\ imageChan'.closed = FALSE /\ imageChan.buf \in Seq(Images)
  <2>1. imageChan \in Chan /\ imageChan' = Sent(imageChan, x)
    BY <1>3 DEF SearchInv, SearchTypeOK, SendImage
  <2>2. QED
    BY <1>1, <2>1, ChannelOps, Zenon
<1>5. SearchTypeOK'
  BY <1>2, <1>4 DEF SearchInv, SearchTypeOK, SendImage, run, answer, history
<1>6. /\ Held["packages"] = imageChan.buf /\ Held'["packages"] = imageChan'.buf
      /\ \A p \in Places : p # "packages" => Held'[p] = Held[p]
  <2>1. HeldFacts'
    BY HeldIs, PTL
  <2>2. HeldFacts /\ SearchTypeOK
    BY HeldIs DEF SearchInv
  <2>3. QED
    BY <1>5, <2>1, <2>2 DEF HeldFacts, SendImage, answer, Places
<1>7. /\ x \in Sending /\ x \notin Everything(Held)
      /\ Apart(Held) /\ found = Everything(Held) \cup Sending
      /\ Everything(Held) \cap Sending = {}
  BY <1>2, <1>3 DEF SearchInv, FoundInv, Sending
<1>8. "packages" \in Places /\ DOMAIN Held = Places
  BY DEF Places, Held
<1>9. /\ Range(imageChan'.buf) = Range(imageChan.buf) \cup {x}
      /\ IsInjective(imageChan'.buf)
  <2>1. IsInjective(imageChan.buf) /\ x \notin Range(imageChan.buf)
    BY <1>6, <1>7, <1>8 DEF Apart, Everything
  <2>2. PICK s \in Seq(Images) : s = imageChan.buf
    BY <1>4, Zenon
  <2>3. Range(Append(s, x)) = Range(s) \cup {x} /\ IsInjective(Append(s, x))
    BY <2>1, <2>2, PutLast
  <2>4. QED
    BY <1>4, <2>2, <2>3, Zenon
<1>10. Apart(Held') /\ Everything(Held') = Everything(Held) \cup {x}
  <2>1. Put(Held, Held', "packages")
    BY <1>6, <1>7, <1>8, <1>9 DEF Put
  <2>2. Range(imageChan.buf) \subseteq Everything(Held)
    BY <1>6, <1>8 DEF Everything
  <2>3. Apart(Held') /\ Everything(Held') = Everything(Held) \cup Range(imageChan'.buf)
    BY <1>5, <1>6, <1>8, <2>1, PutHeld
  <2>4. QED
    BY <1>9, <2>2, <2>3
<1>11. Sending' = Sending \ {x}
  <2>1. \A j \in Repos : j # i => ImageOf(GHCR, j) # ImageOf(GHCR, i)
    BY DEF ImageOf
  <2>2. QED
    BY <1>2, <1>3, <2>1 DEF Sending
<1>12. FoundInv'
  <2>1. /\ Apart(Held') /\ found' = Everything(Held') \cup Sending'
        /\ Everything(Held') \cap Sending' = {}
    BY <1>7, <1>10, <1>11 DEF SendImage, history
  <2>2. \A j \in Repos : item'[j] \in {"none", "start", "token"} => ImageOf(GHCR, j) \notin found'
    BY <1>2 DEF SearchInv, FoundInv, SendImage, history
  <2>3. worker'[DockerHub].step \in {"none", "start", "search"} =>
          \A y \in found' : y.registry # DockerHub
    BY DEF SearchInv, FoundInv, SendImage, history
  <2>4. QED
    BY <2>1, <2>2, <2>3 DEF FoundInv, Apart, Everything
<1>13. SendersInv'
  BY <1>1, <1>2, <1>4
     DEF SearchInv, SendersInv, SendImage, Searching, answer, history, Drained, Registries
<1>14. AllowedInv'
  BY DEF SearchInv, AllowedInv, SendImage, run, history
<1>15. QED
  BY <1>1, <1>5, <1>12, <1>13, <1>14 DEF SearchInv, SendImage

LEMMA CloseImagesKeeps ==
  ASSUME SearchInv, CloseImages
  PROVE  SearchInv'
<1>1. imageChan' \in Chan /\ imageChan'.buf = imageChan.buf /\ imageChan'.closed
  BY ChannelOps DEF SearchInv, SearchTypeOK, CloseImages
<1>2. SearchTypeOK'
  BY <1>1 DEF SearchInv, SearchTypeOK, CloseImages, run, answer, history
<1>3. Held' = Held
  BY <1>1, SameHeld DEF CloseImages, answer
<1>4. FoundInv'
  BY <1>3, SameFound DEF SearchInv, CloseImages, history
<1>5. SendersInv'
  BY <1>1
     DEF SearchInv, SendersInv, CloseImages, Searching, answer, history, Drained, Registries
<1>6. AllowedInv'
  BY DEF SearchInv, AllowedInv, CloseImages, run, history
<1>7. QED
  BY <1>2, <1>4, <1>5, <1>6 DEF SearchInv, CloseImages

LEMMA CollectKeeps ==
  ASSUME SearchInv, Collect
  PROVE  SearchInv'
<1>1. /\ SearchTypeOK /\ worker[GHCR].step = "collect" /\ Searching
      /\ GHCR \in Registries /\ DockerHub \in Registries /\ DockerHub # GHCR
  BY PolicyAssumption DEF SearchInv, Collect, SendersInv, Registries
<1>2. worker[GHCR].images \in Seq(Images) /\ imageChan \in Chan /\ imageChan.buf \in Seq(Images)
  BY <1>1, ChannelOps DEF SearchTypeOK, Holder
<1>3. CASE /\ imageChan.buf # << >>
           /\ worker' = [worker EXCEPT ![GHCR].images = Append(@, Head(imageChan.buf))]
           /\ imageChan' = Taken(imageChan)
           /\ UNCHANGED <<run, caller, ctxDone, item, answer, panicked, history>>
  <2>1. PICK x \in Images : x = Head(imageChan.buf)
    BY <1>2, <1>3
  <2>2. PICK t \in Seq(Images) : t = Append(worker[GHCR].images, x)
    <3>1. Append(worker[GHCR].images, x) \in Seq(Images)
      BY <1>2, <2>1, PutLast
    <3>2. QED
      BY <3>1, Zenon
  <2>3. /\ worker' \in [Registries -> Holder]
        /\ worker'[GHCR].images = Append(worker[GHCR].images, Head(imageChan.buf))
        /\ \A q \in Registries : worker'[q].step = worker[q].step
        /\ worker'[DockerHub] = worker[DockerHub]
    <3>1. worker' = [worker EXCEPT ![GHCR].images = t]
      BY <1>3, <2>1, <2>2
    <3>2. QED
      BY <1>1, <2>1, <2>2, <3>1, ImagesSet, Zenon
  <2>4. /\ imageChan' \in Chan /\ imageChan'.buf = Tail(imageChan.buf)
        /\ imageChan'.closed = imageChan.closed
    BY <1>2, <1>3, ChannelOps, Zenon
  <2>5. SearchTypeOK'
    BY <1>1, <1>3, <2>3, <2>4 DEF SearchTypeOK, run, answer, history
  <2>6. /\ Held["packages"] = imageChan.buf /\ Held'["packages"] = imageChan'.buf
        /\ Held["ghcr"] = worker[GHCR].images /\ Held'["ghcr"] = worker'[GHCR].images
        /\ \A p \in Places : p # "packages" /\ p # "ghcr" => Held'[p] = Held[p]
    <3>1. HeldFacts'
      BY HeldIs, PTL
    <3>2. HeldFacts
      BY HeldIs
    <3>3. QED
      BY <1>1, <1>3, <2>3, <2>5, <3>1, <3>2 DEF HeldFacts, answer, Places
  <2>7. "packages" \in Places /\ "ghcr" \in Places /\ DOMAIN Held = Places
    BY DEF Places, Held
  <2>8. Moved(Held, Held', "packages", "ghcr")
    BY <1>3, <2>3, <2>4, <2>6, <2>7, Zenon DEF Moved
  <2>9. Apart(Held') /\ Everything(Held') = Everything(Held)
    BY <2>5, <2>7, <2>8, MoveHeld
  <2>10. FoundInv'
    BY <1>3, <2>3, <2>9, MovedFound DEF SearchInv, history
  <2>11. SendersInv'
    BY <1>1, <1>3, <2>3, <2>4
       DEF SearchInv, SendersInv, Searching, answer, history, Drained, Registries
  <2>12. AllowedInv'
    BY <1>3, <2>3 DEF SearchInv, AllowedInv, run, history
  <2>13. QED
    BY <1>3, <2>5, <2>10, <2>11, <2>12 DEF SearchInv
<1>4. CASE /\ Drained(imageChan)
           /\ worker' = [worker EXCEPT ![GHCR].step = "send"]
           /\ UNCHANGED imageChan
           /\ UNCHANGED <<run, caller, ctxDone, item, answer, panicked, history>>
  <2>1. /\ worker' \in [Registries -> Holder] /\ worker'[GHCR].step = "send"
        /\ \A q \in Registries : worker'[q].images = worker[q].images
        /\ worker'[DockerHub] = worker[DockerHub]
    <3>1. "send" \in Steps
      BY DEF Steps
    <3>2. QED
      BY <1>1, <1>4, <3>1, StepSet, Zenon
  <2>2. SearchTypeOK'
    BY <1>1, <1>4, <2>1 DEF SearchTypeOK, run, answer, history
  <2>3. Held' = Held
    BY <1>1, <1>4, <2>1, SameHeld DEF answer
  <2>4. FoundInv'
    BY <1>4, <2>1, <2>3, SameFound DEF SearchInv, history
  <2>5. SendersInv'
    BY <1>1, <1>4, <2>1
       DEF SearchInv, SendersInv, Searching, answer, history, Drained, Registries
  <2>6. AllowedInv'
    BY <1>1, <1>4, <2>1 DEF SearchInv, AllowedInv, run, history, Registries
  <2>7. QED
    BY <1>4, <2>2, <2>4, <2>5, <2>6 DEF SearchInv
<1>5. QED
  BY <1>3, <1>4 DEF Collect

LEMMA SearchStutters ==
  ASSUME SearchInv, UNCHANGED searchVars
  PROVE  SearchInv'
<1> USE DEF searchVars, run, packages, answer, history
<1>1. SearchTypeOK'
  BY DEF SearchInv, SearchTypeOK
<1>2. Held' = Held
  BY SameHeld
<1>3. FoundInv'
  BY <1>2, SameFound DEF SearchInv
<1>4. SendersInv'
  BY DEF SearchInv, SendersInv, Searching, Drained
<1>5. AllowedInv'
  BY DEF SearchInv, AllowedInv
<1>6. QED
  BY <1>1, <1>3, <1>4, <1>5 DEF SearchInv

-----------------------------------------------------------------------------
\* The invariant behind the results below: every image found is at one place,
\* channels are closed when their senders have returned, and what is searched
\* is allowed.
LEMMA SearchInvariant == SearchInit /\ [][SearchNext]_searchVars => []SearchInv
<1>1. ASSUME SearchInv, [SearchNext]_searchVars
      PROVE  SearchInv'
  <2>1. ASSUME CallerStep PROVE SearchInv'
    BY <1>1, <2>1, ConfigureKeeps, RefuseQueryKeeps, ListImagesKeeps, ReceiveKeeps, ReturnKeeps
       DEF CallerStep
  <2>2. ASSUME NEW r \in Registries, WorkerStep(r) PROVE SearchInv'
    BY <1>1, <2>2, SearchKeeps, FailKeeps, SendResultKeeps DEF WorkerStep
  <2>3. ASSUME NEW i \in Repos, RepoStep(i) PROVE SearchInv'
    BY <1>1, <2>3, AskTokenKeeps, HasPackageKeeps, SendImageKeeps DEF RepoStep
  <2>4. CASE UNCHANGED searchVars
    BY <1>1, <2>4, SearchStutters
  <2>5. QED
    BY <1>1, <2>1, <2>2, <2>3, <2>4, CloseResultsKeeps, AnswerHubKeeps, AnswerGitHubKeeps,
       CloseImagesKeeps, CollectKeeps, ContextEndsKeeps
       DEF SearchNext
<1>2. QED
  BY <1>1, InitSearchInv, PTL

\* ListImages answers with exactly what the registries found, each image once,
\* and no goroutine sends into a closed channel.
THEOREM SearchLosesNothing == SearchSpec => []NothingLost
<1>1. ASSUME SearchInv PROVE NothingLost
  <2>1. SUFFICES ASSUME caller = "returned"
                 PROVE  Range(results) = found /\ Len(results) = Cardinality(found)
    BY <1>1 DEF NothingLost, SearchInv
  <2>2. /\ resultChan.buf = << >> /\ \A r \in Registries : worker[r].step = "returned"
    BY <1>1, <2>1 DEF SearchInv, SendersInv, Drained
  <2>3. /\ \A r \in Registries : worker[r].images = << >>
        /\ imageChan.buf = << >>
        /\ \A i \in Repos : item[i] # "send"
    BY <1>1, <2>2 DEF SearchInv, SendersInv, Registries
  <2>4. \A p \in Places : p # "results" => Held[p] = << >>
    BY <1>1, <2>2, <2>3, HeldIs DEF SearchInv, HeldFacts, Places, Registries
  <2>5. Held["results"] = results /\ results \in Seq(Images) /\ DOMAIN Held = Places
    BY <1>1 DEF Held, Places, SearchInv, SearchTypeOK
  <2>6. Everything(Held) = Range(results)
    <3>1. \A p \in Places : p # "results" => Range(Held[p]) = {}
      BY <2>4 DEF Range
    <3>2. "results" \in Places
      BY DEF Places
    <3>3. QED
      BY <2>5, <3>1, <3>2 DEF Everything
  <2>7. Sending = {}
    BY <2>3 DEF Sending
  <2>8. found = Range(results) /\ IsInjective(results)
    BY <1>1, <2>5, <2>6, <2>7 DEF SearchInv, FoundInv, Apart, Places
  <2>9. QED
    BY <2>5, <2>8, LenIsCardinality
<1>2. QED
  BY <1>1, SearchInvariant, PTL DEF SearchSpec

-----------------------------------------------------------------------------
\* A build may read its two local sources and the images of the allowed registries,
\* and nothing else: the rule that denies everything comes first, so that one of the
\* others decides wherever it selects.
THEOREM PolicyExact ==
  ASSUME NEW a, NEW source
  PROVE  Admits(sourcePolicy(a), source) <=>
           \/ \E name \in buildLocalSources : source = Local(name)
           \/ \E host \in NormalizeAllowedRegistries(a) : source = Image(host)
<1> DEFINE policy == sourcePolicy(a)
           hits == {i \in DOMAIN policy : {Anything, source} \cap policy[i].selectors # {}}
           locals == {Local(name) : name \in buildLocalSources}
           images == {Image(host) : host \in NormalizeAllowedRegistries(a)}
<1>1. /\ DOMAIN policy = 1..3
      /\ policy[1].action = "DENY" /\ policy[1].selectors = {Anything}
      /\ policy[2].action = "ALLOW" /\ policy[2].selectors = locals
      /\ policy[3].action = "ALLOW" /\ policy[3].selectors = images
  BY DEF sourcePolicy
<1>2. Anything \notin locals /\ Anything \notin images
  BY DEF Anything, Local, Image
<1>3. /\ hits \subseteq 1..3 /\ 1 \in hits
      /\ 2 \in hits <=> source \in locals
      /\ 3 \in hits <=> source \in images
  BY <1>1, <1>2
<1>4. Max(hits) \in hits /\ \A i \in hits : Max(hits) >= i
  <2>1. \E m \in hits : \A i \in hits : m >= i
    BY <1>3
  <2> HIDE DEF hits
  <2>2. QED
    BY <2>1 DEF Max
<1>5. Admits(policy, source) <=> policy[Max(hits)].action = "ALLOW"
  BY <1>3 DEF Admits
<1>6. PICK m \in 1..3 : m = Max(hits) /\ m \in hits /\ \A i \in hits : m >= i
  BY <1>3, <1>4
<1>7. policy[m].action = "ALLOW" <=> m # 1
  BY <1>1
<1>8. m # 1 <=> 2 \in hits \/ 3 \in hits
  BY <1>3, <1>6
<1>9. QED
  BY <1>3, <1>5, <1>6, <1>7, <1>8

\* Nothing is asked, by list_images or list_tags, and no image is offered,
\* that the source policy of the run's builds denies.
THEOREM SearchOffersOnlyBuildable == SearchSpec => []OffersOnlyBuildable
<1>1. ASSUME SearchInv PROVE OffersOnlyBuildable
  <2> DEFINE asked == contacted \cup {i.registry : i \in Range(results)}
                        \cup UNION {ListTagsContacts(allowed, w) : w \in Written}
  <2>1. allowed \in SUBSET Hosts
    BY <1>1 DEF SearchInv, SearchTypeOK
  <2>2. ASSUME NEW host \in asked PROVE host \in NormalizeAllowedRegistries(allowed)
    <3>1. CASE host \in contacted
      BY <1>1, <2>1, <3>1, NormalizedTwice DEF SearchInv, AllowedInv
    <3>2. CASE host \in {i.registry : i \in Range(results)}
      <4>1. Range(results) \subseteq found
        <5>1. Held["results"] = results /\ "results" \in Places /\ DOMAIN Held = Places
          BY DEF Held, Places
        <5>2. QED
          BY <1>1, <5>1 DEF SearchInv, FoundInv, Everything
      <4>2. host \in allowed
        BY <1>1, <3>2, <4>1 DEF SearchInv, AllowedInv
      <4>3. QED
        BY <2>1, <4>2, NormalizedTwice
    <3>3. CASE host \in UNION {ListTagsContacts(allowed, w) : w \in Written}
      BY <3>3 DEF ListTagsContacts
    <3>4. QED
      BY <2>2, <3>1, <3>2, <3>3
  <2>3. QED
    BY <2>1, <2>2, PolicyExact DEF OffersOnlyBuildable
<1>2. QED
  BY <1>1, SearchInvariant, PTL DEF SearchSpec
=============================================================================
