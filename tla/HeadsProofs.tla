---------------------------- MODULE HeadsProofs ----------------------------
(***************************************************************************)
(* Proofs about the heads: what the app's task makes of any header lines,  *)
(* for every set of names and every number of lines.                       *)
(***************************************************************************)
EXTENDS Heads, TLAPS

-----------------------------------------------------------------------------
(* Sequences and maps. *)

LEMMA FrontAndLast ==
  ASSUME NEW T, NEW s \in Seq(T), s # <<>>
  PROVE  Front(s) \in Seq(T) /\ Last(s) \in T /\ Front(s) \o <<Last(s)>> = s
BY DEF Front, Last

LEMMA AppendedTo ==
  ASSUME NEW T, NEW s \in Seq(T), NEW e \in T
  PROVE  /\ Append(s, e) \in Seq(T)
         /\ DOMAIN Append(s, e) = DOMAIN s \cup {Len(s) + 1}
         /\ Append(s, e)[Len(s) + 1] = e
         /\ \A i \in DOMAIN s : Append(s, e)[i] = s[i]
         /\ DOMAIN s = 1..Len(s) /\ Len(s) \in Nat
OBVIOUS

LEMMA HighestIsMax ==
  ASSUME NEW I \in SUBSET Nat, NEW i \in I, \A j \in I : j <= i
  PROVE  Max(I) = i
<1>1. \E m \in I : \A j \in I : m >= j
  OBVIOUS
<1>2. Max(I) \in I /\ \A j \in I : Max(I) >= j
  <2> DEFINE Highest(m) == \A j \in I : m >= j
  <2>1. Max(I) = CHOOSE m \in I : Highest(m)
    BY DEF Max
  <2>2. \E m \in I : Highest(m)
    BY <1>1
  <2> HIDE DEF Highest
  <2>3. Max(I) \in I /\ Highest(Max(I))
    BY <2>1, <2>2
  <2> QED
    BY <2>3 DEF Highest
<1> DEFINE m == Max(I)
<1>3. m \in Nat /\ i \in Nat /\ m >= i /\ m <= i
  BY <1>2
<1> HIDE DEF m
<1>4. m = i
  BY <1>3
<1> QED
  BY <1>4 DEF m

LEMMA PutIn ==
  ASSUME NEW dict, NEW name, NEW value
  PROVE  /\ DOMAIN Put(dict, name, value) = DOMAIN dict \cup {name}
         /\ Put(dict, name, value)[name] = value
         /\ \A n \in DOMAIN dict \ {name} : Put(dict, name, value)[n] = dict[n]
BY DEF Put

(* One more element on either side: what it was made of is still listed.   *)
LEMMA ListsMore ==
  \A n, m \in Nat : \A K \in SUBSET (1..m) : \A order \in [1..n -> 1..m] :
    Lists(order, K) => \E more \in [1..(n + 1) -> 1..(m + 1)] :
                         /\ Lists(more, K \cup {m + 1})
                         /\ more[n + 1] = m + 1
                         /\ \A i \in 1..n : more[i] = order[i]
<1> SUFFICES ASSUME NEW n \in Nat, NEW m \in Nat, NEW K \in SUBSET (1..m),
                    NEW order \in [1..n -> 1..m], Lists(order, K)
             PROVE  \E more \in [1..(n + 1) -> 1..(m + 1)] :
                      /\ Lists(more, K \cup {m + 1})
                      /\ more[n + 1] = m + 1
                      /\ \A i \in 1..n : more[i] = order[i]
  BY Zenon
<1> DEFINE more == [i \in 1..(n + 1) |-> IF i = n + 1 THEN m + 1 ELSE order[i]]
<1>1. /\ more \in [1..(n + 1) -> 1..(m + 1)] /\ more[n + 1] = m + 1
      /\ \A i \in 1..n : more[i] = order[i] /\ order[i] \in 1..m
  OBVIOUS
<1>2. Range(more) = K \cup {m + 1}
  BY <1>1 DEF Range, Lists
<1>3. \A i, j \in 1..(n + 1) : i < j => more[i] < more[j]
  BY <1>1 DEF Lists
<1> QED
  BY <1>1, <1>2, <1>3 DEF Lists

-----------------------------------------------------------------------------
(* What is read and kept has these forms in every state. *)

HeaderNames == {Lower(n) : n \in Names}
HeaderValues == UNION {Values(n) : n \in HeaderNames}
HeaderPairs == HeaderNames \X HeaderValues

Reading ==
  /\ path \in Paths /\ tokens \in 0..4
  /\ stage = "headers" => tokens >= 3
  /\ stage \in {"text", "headers", "rejected"} => scope = NoScope
  /\ stage = "text" => lines = <<>> /\ headers = <<>> /\ DOMAIN header_map = {}
  /\ lines \in Seq(Pairs \cup OtherLines)
  /\ headers \in Seq(HeaderPairs)

LEMMA NotOther ==
  ASSUME NEW line \in Pairs \cup OtherLines, IsPair(line)
  PROVE  line \in Pairs
<1>1. \A other \in OtherLines : other.shape \in {"empty", "bare", "pseudo"}
  BY DEF OtherLines
<1> QED
  BY <1>1 DEF IsPair

LEMMA PairForm ==
  ASSUME NEW line \in Pairs \cup OtherLines, IsPair(line)
  PROVE  Lower(line.name) \in HeaderNames /\ line.value \in HeaderValues
<1>1. PICK n \in Names : line \in [shape : {"pair"}, name : {n}, value : Values(Lower(n))]
  BY NotOther DEF Pairs
<1>2. line.name = n /\ line.value \in Values(Lower(n))
  BY <1>1
<1> QED
  BY <1>2 DEF HeaderNames, HeaderValues

LEMMA AppendRange ==
  ASSUME NEW T, NEW s \in Seq(T), NEW e \in T
  PROVE  Range(Append(s, e)) = Range(s) \cup {e}
<1> DEFINE a == Append(s, e)
<1>1. /\ DOMAIN a = DOMAIN s \cup {Len(s) + 1} /\ a[Len(s) + 1] = e
      /\ \A i \in DOMAIN s : a[i] = s[i]
  BY AppendedTo
<1> HIDE DEF a
<1> QED
  BY <1>1 DEF Range, a

(* The parts of RequestTypeOK, which steps keep for different reasons. *)
Keyed == DOMAIN header_map = {h[1] : h \in Range(headers)}
Whole ==
  /\ stage \in {"text", "headers", "scope", "rejected", "raised"}
  /\ scope # NoScope => scope.path \in {"/", "p"}

LEMMA Parts == RequestTypeOK <=> Keyed /\ Whole
BY DEF RequestTypeOK, Keyed, Whole

LEMMA SameHeaders == UNCHANGED <<headers, header_map>> => Keyed' = Keyed
BY DEF Keyed

LEMMA ReadingInit == RequestInit => Reading /\ Keyed /\ Whole
<1> SUFFICES ASSUME RequestInit PROVE Reading /\ Keyed /\ Whole
  OBVIOUS
<1>1. headers = <<>> /\ DOMAIN header_map = {}
  BY DEF RequestInit
<1>2. Range(headers) = {}
  BY <1>1 DEF Range
<1>3. {h[1] : h \in {}} = {}
  OBVIOUS
<1>4. Keyed
  BY <1>1, <1>2, <1>3 DEF Keyed
<1>5. scope = NoScope /\ stage = "text" /\ lines = <<>> /\ headers = <<>>
  BY DEF RequestInit
<1>6. Whole
  BY <1>5 DEF Whole
<1>7. Reading
  BY <1>1, <1>5 DEF RequestInit, Reading
<1> QED
  BY <1>4, <1>6, <1>7

LEMMA ReadLineKeepsForms ==
  ASSUME Reading, Keyed, Whole, NEW line \in Pairs \cup OtherLines, ReadLine(line)
  PROVE  Reading' /\ Keyed' /\ Whole'
<1> DEFINE T == Pairs \cup OtherLines
<1>1. /\ stage = "headers" /\ lines' = Append(lines, line)
      /\ stage' \in {"headers", "raised"}
      /\ UNCHANGED <<path, tokens, scope>>
  BY DEF ReadLine
<1>2. lines' \in Seq(T)
  <2>1. lines \in Seq(T) /\ line \in T
    BY DEF Reading
  <2> HIDE DEF T
  <2> QED
    BY <1>1, <2>1
<1>3. CASE UNCHANGED <<headers, header_map>>
  BY <1>1, <1>2, <1>3, SameHeaders DEF Reading, Whole
<1>4. CASE IsPair(line) /\ Keep(Lower(line.name), line.value)
  <2> DEFINE h == <<Lower(line.name), line.value>>
  <2>1. h \in HeaderPairs /\ h[1] = Lower(line.name)
    BY <1>4, PairForm DEF HeaderPairs
  <2>2. headers' = Append(headers, h) /\ header_map' = Put(header_map, h[1], line.value)
    BY <1>4, <2>1 DEF Keep
  <2> HIDE DEF h
  <2>3. headers \in Seq(HeaderPairs)
    BY DEF Reading
  <2>4. headers' \in Seq(HeaderPairs)
    BY <2>1, <2>2, <2>3
  <2>5. Range(headers') = Range(headers) \cup {h}
    BY <2>1, <2>2, <2>3, AppendRange
  <2>6. {g[1] : g \in Range(headers')} = {g[1] : g \in Range(headers)} \cup {h[1]}
    BY <2>5
  <2>7. DOMAIN (header_map') = (DOMAIN header_map) \cup {h[1]}
    BY <2>2 DEF Put
  <2>8. Keyed'
    BY <2>6, <2>7 DEF Keyed
  <2> QED
    BY <1>1, <1>2, <2>4, <2>8 DEF Reading, Whole
<1> QED
  BY <1>3, <1>4 DEF ReadLine, IsPair

LEMMA ReadingStep == Reading /\ Keyed /\ Whole /\ [RequestNext]_requestVars => Reading' /\ Keyed' /\ Whole'
<1> SUFFICES ASSUME Reading, Keyed, Whole, [RequestNext]_requestVars
             PROVE  Reading' /\ Keyed' /\ Whole'
  OBVIOUS
<1>1. CASE Parse
  <2>1. UNCHANGED <<path, tokens, lines, headers, header_map, scope>> /\ stage = "text"
    BY <1>1 DEF Parse
  <2>2. stage' = "rejected" \/ (stage' = "headers" /\ tokens >= 3)
    BY <1>1 DEF Parse, Reading
  <2>3. Reading'
    BY <2>1, <2>2 DEF Reading
  <2>4. Whole'
    BY <2>1, <2>2 DEF Whole
  <2> QED
    BY <2>1, <2>3, <2>4, SameHeaders
<1>2. ASSUME NEW line \in Pairs \cup OtherLines, ReadLine(line)
      PROVE  Reading' /\ Keyed' /\ Whole'
  BY <1>2, ReadLineKeepsForms
<1>3. CASE Build
  <2>1. UNCHANGED <<tokens, path, lines, headers, header_map>>
    BY <1>3 DEF Build
  <2>2. Reading'
    BY <1>3, <2>1 DEF Build, Reading
  <2>3. scope' = scope \/ (stage' = "scope" /\ path # "wide" /\ scope'.path = Path)
    BY <1>3 DEF Build
  <2>4. Whole'
    BY <1>3, <2>1, <2>3 DEF Build, Reading, Whole, Path, Paths
  <2> QED
    BY <2>1, <2>2, <2>4, SameHeaders
<1>4. CASE UNCHANGED requestVars
  BY <1>4, SameHeaders DEF requestVars, Reading, Whole
<1> QED
  BY <1>1, <1>2, <1>3, <1>4 DEF RequestNext

(***************************************************************************)
(* The map of the headers has a key for each of them, and a scope has a    *)
(* path, whatever the lines of the request are.                            *)
(***************************************************************************)
THEOREM RequestTypeHolds == RequestSpec => []RequestTypeOK
BY ReadingInit, ReadingStep, Parts, PTL DEF RequestSpec

-----------------------------------------------------------------------------
(* While the lines are read the headers are the pairs among them, and the  *)
(* map has the value of the last line of each name.                        *)

AllPairs(text) == {k \in DOMAIN text : IsPair(text[k])}

PairsKept ==
  \E line \in [DOMAIN headers -> DOMAIN lines] :
    /\ Lists(line, AllPairs(lines))
    /\ \A i \in DOMAIN headers :
         headers[i] = <<Lower(lines[line[i]].name), lines[line[i]].value>>

NamedLines(name) == {k \in DOMAIN lines : IsPair(lines[k]) /\ Lower(lines[k].name) = name}

LastKept(name) ==
  IF name \in DOMAIN header_map
    THEN \E k \in NamedLines(name) :
           (\A j \in NamedLines(name) : j <= k) /\ header_map[name] = lines[k].value
    ELSE NamedLines(name) = {}

Kept == stage = "headers" => PairsKept /\ \A name : LastKept(name)

LEMMA KeptWhenParsed ==
  ASSUME Reading, Parse
  PROVE  Kept'
<1>1. /\ lines = <<>> /\ headers = <<>> /\ DOMAIN header_map = {}
      /\ UNCHANGED <<lines, headers, header_map>>
  BY DEF Parse, Reading
<1> DEFINE none == [i \in {} |-> 0]
<1>2. PairsKept'
  <2>1. DOMAIN headers' = {} /\ DOMAIN lines' = {}
    BY <1>1
  <2>2. AllPairs(lines)' = {} /\ Lists(none, {})
    BY <2>1 DEF AllPairs, Lists, Range
  <2>3. none \in [DOMAIN headers' -> DOMAIN lines']
    BY <2>1
  <2> HIDE DEF none
  <2> QED
    BY <2>1, <2>2, <2>3 DEF PairsKept
<1>3. ASSUME NEW name PROVE LastKept(name)'
  BY <1>1 DEF LastKept, NamedLines
<1> QED
  BY <1>2, <1>3 DEF Kept

(* A line that is no header leaves everything as it was. *)
LEMMA KeptWhenSkipped ==
  ASSUME Reading, NEW line \in Pairs \cup OtherLines, lines' = Append(lines, line), ~ IsPair(line),
         UNCHANGED <<headers, header_map>>, PairsKept, \A name : LastKept(name)
  PROVE  PairsKept' /\ \A name : LastKept(name)'
<1> DEFINE n == Len(lines)
<1>1. /\ DOMAIN lines = 1..n /\ DOMAIN lines' = 1..(n + 1) /\ n \in Nat
      /\ lines'[n + 1] = line /\ \A k \in 1..n : lines'[k] = lines[k]
  BY DEF Reading
<1> HIDE DEF n
<1>2. AllPairs(lines') = AllPairs(lines)
  BY <1>1 DEF AllPairs
<1>3. PairsKept'
  <2>1. PICK order \in [DOMAIN headers -> DOMAIN lines] :
          /\ Lists(order, AllPairs(lines))
          /\ \A i \in DOMAIN headers :
               headers[i] = <<Lower(lines[order[i]].name), lines[order[i]].value>>
    BY DEF PairsKept
  <2>2. order \in [DOMAIN headers -> DOMAIN lines']
    BY <1>1
  <2>3. \A i \in DOMAIN headers : lines'[order[i]] = lines[order[i]]
    BY <1>1
  <2> QED
    BY <1>2, <2>1, <2>2, <2>3 DEF PairsKept
<1>4. ASSUME NEW name PROVE LastKept(name)'
  <2>1. NamedLines(name)' = NamedLines(name)
    BY <1>1 DEF NamedLines
  <2>2. \A k \in NamedLines(name) : lines'[k] = lines[k]
    BY <1>1 DEF NamedLines
  <2> QED
    BY <2>1, <2>2 DEF LastKept
<1> QED
  BY <1>3, <1>4

LEMMA KeptWhenKept ==
  ASSUME Reading, NEW line \in Pairs \cup OtherLines, lines' = Append(lines, line), IsPair(line),
         Keep(Lower(line.name), line.value), PairsKept, \A name : LastKept(name)
  PROVE  PairsKept' /\ \A name : LastKept(name)'
<1> DEFINE n == Len(lines)
           m == Len(headers)
           key == Lower(line.name)
           h == <<key, line.value>>
<1>1. /\ DOMAIN lines = 1..n /\ DOMAIN lines' = 1..(n + 1) /\ n \in Nat
      /\ lines'[n + 1] = line /\ \A k \in 1..n : lines'[k] = lines[k]
  BY DEF Reading
<1>2. /\ DOMAIN headers = 1..m /\ DOMAIN headers' = 1..(m + 1) /\ m \in Nat
      /\ headers'[m + 1] = h /\ \A i \in 1..m : headers'[i] = headers[i]
  <2>1. h \in HeaderPairs
    BY PairForm DEF HeaderPairs
  <2>2. headers' = Append(headers, h)
    BY DEF Keep
  <2> HIDE DEF h
  <2> QED
    BY <2>1, <2>2 DEF Reading
<1>3. header_map' = Put(header_map, key, line.value)
  BY DEF Keep
<1> HIDE DEF n, m, key
<1>4. AllPairs(lines') = AllPairs(lines) \cup {n + 1} /\ AllPairs(lines) \in SUBSET (1..n)
  BY <1>1 DEF AllPairs
<1>5. PairsKept'
  <2>1. PICK order \in [1..m -> 1..n] :
          /\ Lists(order, AllPairs(lines))
          /\ \A i \in 1..m : headers[i] = <<Lower(lines[order[i]].name), lines[order[i]].value>>
    BY <1>1, <1>2 DEF PairsKept
  <2> DEFINE K == AllPairs(lines)
  <2>2. PICK more \in [1..(m + 1) -> 1..(n + 1)] :
          /\ Lists(more, K \cup {n + 1})
          /\ more[m + 1] = n + 1
          /\ \A i \in 1..m : more[i] = order[i]
    <3>1. K \in SUBSET (1..n) /\ Lists(order, K)
      BY <1>4, <2>1
    <3>2. n \in Nat /\ m \in Nat /\ order \in [1..m -> 1..n]
      BY <1>1, <1>2, <2>1
    <3> HIDE DEF K
    <3> QED
      BY <3>1, <3>2, ListsMore, Zenon
  <2>3. ASSUME NEW i \in 1..(m + 1)
        PROVE  headers'[i] = <<Lower(lines'[more[i]].name), lines'[more[i]].value>>
    <3>1. CASE i = m + 1
      BY <1>1, <1>2, <2>2, <3>1 DEF key
    <3>2. CASE i \in 1..m
      <4>1. order[i] \in 1..n /\ more[i] = order[i]
        BY <2>2, <3>2
      <4>2. lines'[more[i]] = lines[order[i]] /\ headers'[i] = headers[i]
        BY <1>1, <1>2, <3>2, <4>1
      <4> QED
        BY <2>1, <3>2, <4>2
    <3>3. i = m + 1 \/ i \in 1..m
      BY <1>2
    <3> QED
      BY <3>1, <3>2, <3>3, Zenon
  <2>4. Lists(more, AllPairs(lines'))
    BY <1>4, <2>2
  <2>5. more \in [DOMAIN headers' -> DOMAIN lines']
    BY <1>1, <1>2, <2>2
  <2>6. \A i \in DOMAIN headers' :
          headers'[i] = <<Lower(lines'[more[i]].name), lines'[more[i]].value>>
    BY <1>2, <2>3, Zenon
  <2> QED
    BY <2>4, <2>5, <2>6, Zenon DEF PairsKept
<1>6. ASSUME NEW name PROVE LastKept(name)'
  <2>1. CASE name = key
    <3>1. NamedLines(name)' = NamedLines(name) \cup {n + 1} /\ NamedLines(name) \subseteq 1..n
      BY <1>1, <2>1 DEF NamedLines, key
    <3>2. name \in DOMAIN header_map' /\ header_map'[name] = line.value
      BY <1>3, <2>1 DEF Put
    <3>3. \A j \in NamedLines(name)' : j <= n + 1
      BY <1>1, <3>1
    <3> QED
      BY <1>1, <3>1, <3>2, <3>3 DEF LastKept
  <2>2. CASE name # key
    <3>1. NamedLines(name)' = NamedLines(name)
      BY <1>1, <2>2 DEF NamedLines, key
    <3>2. \A k \in NamedLines(name) : lines'[k] = lines[k]
      BY <1>1 DEF NamedLines
    <3>3. /\ name \in DOMAIN (header_map') <=> name \in DOMAIN header_map
          /\ name \in DOMAIN header_map => header_map'[name] = header_map[name]
      BY <1>3, <2>2 DEF Put
    <3> QED
      BY <3>1, <3>2, <3>3 DEF LastKept
  <2> QED
    BY <2>1, <2>2
<1> QED
  BY <1>5, <1>6

LEMMA KeptStep == Reading /\ Kept /\ [RequestNext]_requestVars => Kept'
<1> SUFFICES ASSUME Reading, Kept, [RequestNext]_requestVars PROVE Kept'
  OBVIOUS
<1>1. CASE Parse
  BY <1>1, KeptWhenParsed
<1>2. ASSUME NEW line \in Pairs \cup OtherLines, ReadLine(line) PROVE Kept'
  <2>1. /\ stage = "headers" /\ lines' = Append(lines, line)
        /\ PairsKept /\ \A name : LastKept(name)
    BY <1>2 DEF ReadLine, Kept
  <2>2. CASE ~ IsPair(line)
    <3>1. UNCHANGED <<headers, header_map>>
      BY <1>2, <2>2 DEF ReadLine, IsPair
    <3> QED
      BY <2>1, <2>2, <3>1, KeptWhenSkipped DEF Kept
  <2>3. CASE IsPair(line) /\ Keep(Lower(line.name), line.value)
    BY <2>1, <2>3, KeptWhenKept DEF Kept
  <2>4. CASE stage' = "raised"
    BY <2>4 DEF Kept
  <2> QED
    BY <1>2, <2>2, <2>3, <2>4 DEF ReadLine, IsPair
<1>3. CASE Build
  <2>1. stage' # "headers"
    BY <1>3 DEF Build
  <2> QED
    BY <2>1 DEF Kept
<1>4. CASE UNCHANGED requestVars
  <2>1. PairsKept' = PairsKept
    BY <1>4 DEF requestVars, PairsKept, AllPairs
  <2>2. ASSUME NEW name PROVE LastKept(name)' = LastKept(name)
    BY <1>4 DEF requestVars, LastKept, NamedLines
  <2> QED
    BY <1>4, <2>1, <2>2 DEF Kept, requestVars
<1> QED
  BY <1>1, <1>2, <1>3, <1>4 DEF RequestNext

-----------------------------------------------------------------------------
(* The scope, which is made of the map. *)

LEMMA HostForm ==
  ASSUME NEW host \in Values("host")
  PROVE  host # <<>> /\ \E T : host \in Seq(T)
<1> DEFINE T == {NoText, "a", "81", "x", "[", "1]"}
<1>1. host \in {<<NoText>>, <<"a">>, <<"a", "81">>, <<"a", "x">>,
                <<"[", NoText, "1]">>, <<"[", NoText, "1]", "81">>}
  BY DEF Values, NoValue
<1>2. /\ \A u \in T : <<u>> \in Seq(T) /\ <<u>> # <<>>
      /\ \A u, v \in T : <<u, v>> \in Seq(T) /\ <<u, v>> # <<>>
      /\ \A u, v, w \in T : <<u, v, w>> \in Seq(T) /\ <<u, v, w>> # <<>>
      /\ \A u, v, w, x \in T : <<u, v, w, x>> \in Seq(T) /\ <<u, v, w, x>> # <<>>
  <2> HIDE DEF T
  <2> QED
    OBVIOUS
<1>3. NoText \in T /\ "a" \in T /\ "81" \in T /\ "x" \in T /\ "[" \in T /\ "1]" \in T
  OBVIOUS
<1> HIDE DEF T
<1>4. host \in Seq(T) /\ host # <<>>
  BY <1>1, <1>2, <1>3
<1> QED
  BY <1>4

LEMMA PairValue ==
  ASSUME NEW line \in Pairs \cup OtherLines, IsPair(line)
  PROVE  line.value \in Values(Lower(line.name))
<1>1. PICK n \in Names : line \in [shape : {"pair"}, name : {n}, value : Values(Lower(n))]
  BY NotOther DEF Pairs
<1> QED
  BY <1>1

(* What the map has is what the last line says. *)
LEMMA LastIsKept ==
  ASSUME Reading, NEW name, LastKept(name)
  PROVE  /\ Get(name, NoValue) = LastValue(name)
         /\ LastValue(name) \in Values(name) \cup {NoValue}
<1> DEFINE K == NamedLines(name)
<1>1. K \in SUBSET Nat /\ K \subseteq DOMAIN lines
  BY DEF Reading, NamedLines
<1>2. LastValue(name) = IF K = {} THEN NoValue ELSE lines[Max(K)].value
  BY DEF LastValue, NamedLines
<1>3. CASE name \notin DOMAIN header_map
  <2>1. K = {}
    BY <1>3 DEF LastKept
  <2> QED
    BY <1>2, <1>3, <2>1 DEF Get
<1>4. CASE name \in DOMAIN header_map
  <2>1. PICK k \in K : (\A j \in K : j <= k) /\ header_map[name] = lines[k].value
    BY <1>4 DEF LastKept
  <2>2. k \in DOMAIN lines /\ IsPair(lines[k]) /\ Lower(lines[k].name) = name
    BY DEF NamedLines
  <2>3. Max(K) = k
    <3> HIDE DEF K
    <3> QED
      BY <1>1, <2>1, HighestIsMax
  <2>4. LastValue(name) = lines[k].value
    BY <1>2, <2>1, <2>3
  <2>5. lines[k] \in Pairs \cup OtherLines
    BY <2>2 DEF Reading
  <2>6. lines[k].value \in Values(name)
    BY <2>2, <2>5, PairValue
  <2> QED
    BY <1>4, <2>1, <2>4, <2>6 DEF Get
<1> QED
  BY <1>3, <1>4

(* Of the pairs that are kept, those that are end-to-end are listed too.   *)
LEMMA EndToEndKept ==
  ASSUME PairsKept
  PROVE  \E line \in [EndToEnd(headers) -> DOMAIN lines] :
           /\ Lists(line, PairsIn(lines))
           /\ \A i \in EndToEnd(headers) :
                headers[i] = <<Lower(lines[line[i]].name), lines[line[i]].value>>
<1>1. PICK all \in [DOMAIN headers -> DOMAIN lines] :
        /\ Lists(all, AllPairs(lines))
        /\ \A i \in DOMAIN headers :
             headers[i] = <<Lower(lines[all[i]].name), lines[all[i]].value>>
  BY DEF PairsKept
<1> DEFINE line == [i \in EndToEnd(headers) |-> all[i]]
<1>2. EndToEnd(headers) \subseteq DOMAIN headers
  BY DEF EndToEnd
<1>3. line \in [EndToEnd(headers) -> DOMAIN lines] /\ DOMAIN line = EndToEnd(headers)
  BY <1>1, <1>2
<1>4. \A i \in DOMAIN headers : headers[i][1] = Lower(lines[all[i]].name)
  BY <1>1
<1>5. \A i \in DOMAIN headers : all[i] \in AllPairs(lines)
  BY <1>1 DEF Lists, Range
<1>6. \A i \in EndToEnd(headers) : line[i] \in PairsIn(lines)
  BY <1>2, <1>4, <1>5 DEF EndToEnd, PairsIn, AllPairs
<1>7. ASSUME NEW k \in PairsIn(lines) PROVE \E i \in EndToEnd(headers) : line[i] = k
  <2>1. PICK i \in DOMAIN headers : all[i] = k
    BY <1>1 DEF PairsIn, AllPairs, Lists, Range
  <2>2. i \in EndToEnd(headers)
    BY <1>4, <2>1 DEF EndToEnd, PairsIn
  <2> QED
    BY <2>1, <2>2
<1>8. Range(line) = PairsIn(lines)
  <2> HIDE DEF line
  <2> QED
    BY <1>3, <1>6, <1>7 DEF Range
<1>9. \A i, j \in EndToEnd(headers) : i < j => line[i] < line[j]
  BY <1>1, <1>2 DEF Lists
<1>10. \A i \in EndToEnd(headers) :
         headers[i] = <<Lower(lines[line[i]].name), lines[line[i]].value>>
  BY <1>1, <1>2
<1> HIDE DEF line
<1>11. Lists(line, PairsIn(lines))
  BY <1>3, <1>8, <1>9 DEF Lists
<1> QED
  BY <1>3, <1>10, <1>11

LEMMA BuildKeepsOrigin ==
  ASSUME Reading, Kept, Build
  PROVE  OriginKept'
<1> DEFINE host == LastValue("host")
           chain == LastValue("x-forwarded-for")
<1> SUFFICES ASSUME scope' # NoScope PROVE OriginKept'
  BY DEF OriginKept
<1>1. stage = "headers" /\ \A name : LastKept(name)
  BY DEF Build, Kept
<1>2. /\ scope'.scheme = Scheme /\ scope'.server = Server /\ scope'.client = Client
      /\ UNCHANGED lines
  BY <1>1 DEF Build, Reading
<1>3. host' = host /\ chain' = chain
  BY <1>2 DEF LastValue
<1>4. Get("host", NoValue) = host /\ Get("x-forwarded-for", NoValue) = chain
      /\ host \in Values("host") \cup {NoValue}
  BY <1>1, LastIsKept
<1>5. host # <<>> /\ \E T : host \in Seq(T)
  <2>1. NoValue \in Values("host")
    BY DEF Values
  <2>2. host \in Values("host")
    BY <1>4, <2>1
  <2> QED
    BY <2>2, HostForm, Zenon
<1>6. Client = IF chain = NoValue THEN <<>> ELSE <<Head(chain), 0>>
  BY <1>4 DEF Client
<1>7. scope'.client = IF chain = NoValue THEN <<>> ELSE <<chain[1], 0>>
  BY <1>2, <1>6
<1>8. Server = IF host = NoValue THEN <<>>
               ELSE IF Len(host) > 1 /\ Last(host) \in DOMAIN Port
                 THEN <<Front(host), Port[Last(host)]>>
                 ELSE <<host, IF Scheme = "http" THEN 80 ELSE 443>>
  BY <1>4 DEF Server
<1> HIDE DEF host, chain
<1>9. CASE host = NoValue
  BY <1>2, <1>3, <1>7, <1>8, <1>9 DEF OriginKept, host, chain
<1>10. CASE host # NoValue /\ Len(host) > 1 /\ Last(host) \in DOMAIN Port
  <2>1. scope'.server = <<Front(host), Port[Last(host)]>>
    BY <1>2, <1>8, <1>10
  <2>2. Front(host) \o <<Last(host)>> = host
    BY <1>5, FrontAndLast
  <2>3. /\ scope'.server # <<>> /\ scope'.server[2] = Port[Last(host)]
        /\ scope'.server[1] \o <<Last(host)>> = host
    BY <2>1, <2>2
  <2> QED
    BY <1>3, <1>7, <1>10, <2>3 DEF OriginKept, host, chain
<1>11. CASE host # NoValue /\ ~ (Len(host) > 1 /\ Last(host) \in DOMAIN Port)
  <2>1. scope'.server = <<host, IF Scheme = "http" THEN 80 ELSE 443>>
    BY <1>2, <1>8, <1>11
  <2>2. /\ scope'.server # <<>> /\ scope'.server[1] = host
        /\ scope'.server[2] = IF scope'.scheme = "http" THEN 80 ELSE 443
    BY <1>2, <2>1
  <2>3. Last(host) \notin DOMAIN Port \/ Len(host) = 1
    <3>1. PICK T : host \in Seq(T)
      BY <1>5
    <3>2. Len(host) \in Nat /\ Len(host) # 0
      BY <1>5, <3>1
    <3>3. Len(host) > 1 \/ Len(host) = 1
      <4>1. \A n \in Nat : n # 0 => n > 1 \/ n = 1
        OBVIOUS
      <4> QED
        BY <3>2, <4>1, Zenon
    <3> QED
      BY <1>11, <3>3, Zenon
  <2> QED
    BY <1>3, <1>7, <1>11, <2>2, <2>3 DEF OriginKept, host, chain
<1> QED
  BY <1>9, <1>10, <1>11

(* OriginKept, of a scope and what the last lines say. *)
OriginOf(made, host, chain) ==
  made # NoScope =>
    /\ IF host = NoValue
         THEN made.server = <<>>
         ELSE /\ made.server # <<>>
              /\ \/ \E text \in DOMAIN Port :
                      made.server[2] = Port[text] /\ made.server[1] \o <<text>> = host
                 \/ /\ Last(host) \notin DOMAIN Port \/ Len(host) = 1
                    /\ made.server[1] = host
                    /\ made.server[2] = IF made.scheme = "http" THEN 80 ELSE 443
    /\ made.client = IF chain = NoValue THEN <<>> ELSE <<chain[1], 0>>

LEMMA OriginIsOf ==
  /\ OriginKept <=> OriginOf(scope, LastValue("host"), LastValue("x-forwarded-for"))
  /\ OriginKept' <=> OriginOf(scope', LastValue("host")', LastValue("x-forwarded-for")')
BY Zenon DEF OriginKept, OriginOf

LEMMA ScopeStep ==
  Reading /\ Kept /\ HeadersKept /\ OriginKept /\ Reading' /\ [RequestNext]_requestVars
    => HeadersKept' /\ OriginKept'
<1> SUFFICES ASSUME Reading, Kept, HeadersKept, OriginKept, Reading', [RequestNext]_requestVars
             PROVE  HeadersKept' /\ OriginKept'
  OBVIOUS
<1>1. CASE stage' \in {"text", "headers", "rejected"}
  BY <1>1 DEF Reading, HeadersKept, OriginKept
<1>2. CASE UNCHANGED <<lines, headers, scope>>
  <2>1. HeadersKept'
    BY <1>2 DEF HeadersKept
  <2>3. OriginKept'
    <3>1. LastValue("host")' = LastValue("host")
          /\ LastValue("x-forwarded-for")' = LastValue("x-forwarded-for")
      BY <1>2 DEF LastValue
    <3> QED
      BY <1>2, <3>1, OriginIsOf
  <2> QED
    BY <2>1, <2>3
<1>3. CASE Build
  <2>1. HeadersKept'
    <3>1. PairsKept
      BY <1>3 DEF Build, Kept
    <3>2. UNCHANGED <<lines, headers>>
      BY <1>3 DEF Build
    <3> QED
      BY <3>1, <3>2, EndToEndKept DEF HeadersKept
  <2> QED
    BY <1>3, <2>1, BuildKeepsOrigin
<1>4. ASSUME NEW line \in Pairs \cup OtherLines, ReadLine(line)
      PROVE  HeadersKept' /\ OriginKept'
  <2>1. scope' = NoScope
    BY <1>4 DEF ReadLine, Reading
  <2> QED
    BY <2>1 DEF HeadersKept, OriginKept
<1>5. CASE Parse \/ UNCHANGED requestVars
  BY <1>2, <1>5 DEF Parse, requestVars
<1> QED
  BY <1>3, <1>4, <1>5 DEF RequestNext

LEMMA ScopeInit == RequestInit => Kept /\ HeadersKept /\ OriginKept
BY DEF RequestInit, Kept, HeadersKept, OriginKept

(***************************************************************************)
(* The app gets all the end-to-end headers of the request, in order and    *)
(* repeated ones too, whatever other lines are among them.                 *)
(***************************************************************************)
THEOREM HeadersKeptHolds == RequestSpec => []HeadersKept
BY ReadingInit, ReadingStep, KeptStep, ScopeInit, ScopeStep, PTL DEF RequestSpec

(***************************************************************************)
(* Server and client of the scope are those of the last line with the      *)
(* name, however many there are and however they are spelled.              *)
(***************************************************************************)
THEOREM OriginKeptHolds == RequestSpec => []OriginKept
BY ReadingInit, ReadingStep, KeptStep, ScopeInit, ScopeStep, PTL DEF RequestSpec
=============================================================================
