------------------------------- MODULE Heads -------------------------------
(***************************************************************************)
(* From the text of a request head to the ASGI scope: parse_request_head,  *)
(* which the reader runs, and _build_scope with the properties of          *)
(* ParsedHeads, which the app's task runs.                                 *)
(*                                                                         *)
(* A header line is what these look at: whether it is empty, has no colon, *)
(* begins with one (the pseudo-headers of HTTP/2) or is a name and a       *)
(* value.  A value is the sequence of its parts between the separators of  *)
(* its header: colons in Host, commas in X-Forwarded-For.  "wide" stands   *)
(* for text with a character that the target encoding (latin-1; ASCII in   *)
(* the request's path) does not have.                                      *)
(***************************************************************************)
EXTENDS Integers, SequencesExt

CONSTANTS
  Schemes,      (* forwarded_scheme: None ("") or a scheme                 *)
  Names,        (* names as they are spelled                               *)
  MaxLines      (* bound: header lines                                     *)

VARIABLES
  config,               (* forwarded_scheme of the connector               *)
  tokens, path,         (* of the request line: how many; its path         *)
  lines,                (* the header lines, as far as they have been read *)
  stage,                (* "text", "headers", "scope"; "rejected" is a     *)
                        (* ValueError in the reader, "raised" an exception *)
                        (* in the task                                     *)
  headers, header_map,  (* as in the code                                  *)
  scope

requestVars == <<config, tokens, path, lines, stage, headers, header_map, scope>>

NoText == ""
NoValue == <<NoText>>
Paths == {NoText, "p", "wide"}

NoScope == [scheme |-> NoText, path |-> NoText, server |-> <<>>, client |-> <<>>]

Lower(name) == IF name = "Host" THEN "host" ELSE name

(* Values that are tried; "[" "" "1]" is the IPv6 literal [::1], "" alone  *)
(* an empty value.                                                         *)
Values(name) ==
  CASE name = "host" ->
         {NoValue, <<"a">>, <<"a", "81">>, <<"a", "x">>,
          <<"[", NoText, "1]">>, <<"[", NoText, "1]", "81">>}
    [] name = "x-forwarded-proto" -> {NoValue, <<"http">>, <<"https">>}
    [] name = "x-forwarded-for" -> {NoValue, <<"c", "d">>}
    [] OTHER -> {<<"v">>, <<"wide">>}

(* int() of a part; it raises for any other. *)
Port == [text \in {"81"} |-> 81]

(* The lines of a head: the pairs, and what the loop over them skips. *)
Pairs == UNION {[shape : {"pair"}, name : {n}, value : Values(Lower(n))] : n \in Names}
OtherLines == [shape : {"empty", "bare", "pseudo"}, name : {NoText}, value : {<<>>}]

RequestInit ==
  /\ config \in Schemes
  /\ tokens \in 0..4 /\ path \in Paths
  /\ lines = <<>> /\ stage = "text"
  /\ headers = <<>> /\ header_map = [n \in {} |-> <<>>]
  /\ scope = NoScope

(* parse_request_head: an empty text and a line of one or two tokens are   *)
(* no request, and what comes after the third token is not looked at.      *)
Parse ==
  /\ stage = "text"
  /\ stage' = IF tokens < 3 THEN "rejected" ELSE "headers"
  /\ UNCHANGED <<config, tokens, path, lines, headers, header_map, scope>>

(* dict[name] = value. *)
Put(dict, name, value) ==
  [n \in DOMAIN dict \cup {name} |-> IF n = name THEN value ELSE dict[n]]

(* Mutations of Keep: a later header of the same name replaces the earlier *)
(* one; the map keeps the first.                                           *)
KeepOne(name, value) ==
  /\ headers' = Append(SelectSeq(headers, LAMBDA h : h[1] # name), <<name, value>>)
  /\ header_map' = Put(header_map, name, value)

KeepFirst(name, value) ==
  /\ headers' = Append(headers, <<name, value>>)
  /\ header_map' = IF name \in DOMAIN header_map THEN header_map
                   ELSE Put(header_map, name, value)

Keep(name, value) ==
  /\ headers' = Append(headers, <<name, value>>)
  /\ header_map' = Put(header_map, name, value)

(* One round of the loop over header_lines. *)
ReadLine(line) ==
  /\ stage = "headers" /\ Len(lines) < MaxLines
  /\ lines' = Append(lines, line)
  /\ IF line.shape # "pair"
       THEN UNCHANGED <<stage, headers, header_map>>
       ELSE IF line.value = <<"wide">>
         THEN stage' = "raised" /\ UNCHANGED <<headers, header_map>>
         ELSE Keep(Lower(line.name), line.value) /\ UNCHANGED stage
  /\ UNCHANGED <<config, tokens, path, scope>>

(* header_map.get(name, default), where an empty value counts as none for  *)
(* Host and X-Forwarded-For.                                               *)
Get(name, default) == IF name \in DOMAIN header_map THEN header_map[name] ELSE default

Scheme == IF config # NoText THEN config ELSE Get("x-forwarded-proto", <<"http">>)[1]

(* The text after the last colon is the port when int() takes it. *)
Server ==
  LET host == Get("host", NoValue) IN
  IF host = NoValue THEN <<>>
  ELSE IF Len(host) > 1 /\ Last(host) \in DOMAIN Port
    THEN <<Front(host), Port[Last(host)]>>
    ELSE <<host, IF Scheme = "http" THEN 80 ELSE 443>>

(* The farthest of the proxies' clients. *)
Client ==
  LET chain == Get("x-forwarded-for", NoValue)
  IN IF chain = NoValue THEN <<>> ELSE <<Head(chain), 0>>

(* Mutation of Path: an empty path stays empty. *)
PathAsSent == path
Path == IF path = NoText THEN "/" ELSE path

(* The rest of _build_scope.  raw_path is encoded as ASCII. *)
Build ==
  /\ stage = "headers"
  /\ IF path = "wide"
       THEN stage' = "raised" /\ UNCHANGED scope
       ELSE /\ stage' = "scope"
            /\ scope' = [scheme |-> Scheme, path |-> Path, server |-> Server, client |-> Client]
  /\ UNCHANGED <<config, tokens, path, lines, headers, header_map>>

RequestNext ==
  \/ Parse
  \/ \E line \in Pairs \cup OtherLines : ReadLine(line)
  \/ Build

RequestSpec == RequestInit /\ [][RequestNext]_requestVars

-----------------------------------------------------------------------------
IsPair(line) == line.shape = "pair"

(* The value of the last line with this name. *)
LastValue(name) ==
  LET I == {i \in DOMAIN lines : IsPair(lines[i]) /\ Lower(lines[i].name) = name}
  IN IF I = {} THEN NoValue ELSE lines[Max(I)].value

(***************************************************************************)
(* The map has a key for each header that was kept, and a scope has a      *)
(* path.                                                                   *)
(***************************************************************************)
RequestTypeOK ==
  /\ stage \in {"text", "headers", "scope", "rejected", "raised"}
  /\ DOMAIN header_map = {h[1] : h \in Range(headers)}
  /\ scope # NoScope => scope.path \in {"/", "p"}

(* The fields of RFC 9110 that are meant for the next hop alone. *)
HopByHop ==
  {"connection", "keep-alive", "proxy-authenticate", "proxy-authorization",
   "te", "trailer", "transfer-encoding", "upgrade"}

(* The end-to-end headers among the lines of a text and those of a scope.  *)
PairsIn(text) == {k \in DOMAIN text : IsPair(text[k]) /\ Lower(text[k].name) \notin HopByHop}
EndToEnd(kept) == {i \in DOMAIN kept : kept[i][1] \notin HopByHop}

(* order takes its domain to K, each element once and in order. *)
Lists(order, K) ==
  /\ Range(order) = K
  /\ \A i, j \in DOMAIN order : i < j => order[i] < order[j]

(***************************************************************************)
(* The app gets the end-to-end headers that were sent, all of them, in     *)
(* order, with repeated ones, and without the lines that are none: "The    *)
(* adapter should preserve incoming headers except hop-by-hop headers"     *)
(* (architecture.md:105).                                                  *)
(***************************************************************************)
HeadersKept ==
  scope # NoScope =>
    \E line \in [EndToEnd(headers) -> DOMAIN lines] :
      /\ Lists(line, PairsIn(lines))
      /\ \A i \in EndToEnd(headers) :
           headers[i] = <<Lower(lines[line[i]].name), lines[line[i]].value>>

(***************************************************************************)
(* Server and client are those of the last header that names them, however *)
(* often and in whatever case it comes: put together again, address and    *)
(* port are the Host, also when that is an IPv6 literal, and a port it has *)
(* not is the default one of the scheme that the scope reports.  There is  *)
(* no server, or client, exactly when that header is empty or not there.   *)
(***************************************************************************)
OriginKept ==
  scope # NoScope =>
    /\ LET host == LastValue("host") IN
         IF host = NoValue
           THEN scope.server = <<>>
           ELSE /\ scope.server # <<>>
                /\ \/ \E text \in DOMAIN Port :
                        scope.server[2] = Port[text] /\ scope.server[1] \o <<text>> = host
                   \/ /\ Last(host) \notin DOMAIN Port \/ Len(host) = 1
                      /\ scope.server[1] = host
                      /\ scope.server[2] = IF scope.scheme = "http" THEN 80 ELSE 443
    /\ LET chain == LastValue("x-forwarded-for") IN
         scope.client = IF chain = NoValue THEN <<>> ELSE <<chain[1], 0>>
=============================================================================
