----------------------------- MODULE TextRules -----------------------------
(***************************************************************************)
(* The rules about names and texts both servers share: which identifiers,  *)
(* actions and resources are accepted (validate.rs), how a name becomes a  *)
(* path segment (text.rs), how a prefix becomes a LIKE pattern             *)
(* (pagination.rs), and which `next` target a login may end at             *)
(* (util/redirect.rs).                                                     *)
(*                                                                         *)
(* A text is a sequence of characters; a character is a one-letter string, *)
(* "ctl" stands for any control character and "%2f", "%5c" for a percent   *)
(* encoded slash and backslash in either case.                             *)
(***************************************************************************)
EXTENDS Integers, Sequences, FiniteSets, SequencesExt

Blank(char) == char = " "

\* Trims a text; the empty text stands for "nothing left".
NonBlank(text) ==
    LET kept == {i \in DOMAIN text : ~Blank(text[i])}
    IN  IF kept = {} THEN <<>>
        ELSE SubSeq(text, CHOOSE i \in kept : \A j \in kept : i <= j,
                          CHOOSE i \in kept : \A j \in kept : i >= j)

\* The texts between the separators, at most limit of them (0: no limit).
SplitAt(text, separator, limit) ==
    LET Cut(parts, char) ==
            IF char = separator /\ (limit = 0 \/ Len(parts) < limit)
            THEN Append(parts, <<>>)
            ELSE [parts EXCEPT ![Len(parts)] = Append(@, char)]
    IN  FoldLeft(Cut, <<<<>>>>, text)

\* A comma separated list: items trimmed, blank ones dropped.
CommaList(text) ==
    LET items == SplitAt(text, ",", 0)
    IN  SelectSeq([i \in DOMAIN items |-> NonBlank(items[i])], LAMBDA t : t # <<>>)

(***************************************************************************)
(* What lakeFS would accept (validate.rs).                                 *)
(***************************************************************************)
MaxIdLen == 512

\* Fault: without the rule about dot segments.
ValidEntityId_DotsAllowed(id) ==
    /\ id # <<>>
    /\ Len(id) <= MaxIdLen
    /\ {"/", "*", "?", "ctl"} \cap Range(id) = {}

ValidEntityId(id) ==
    /\ id # <<>>
    /\ Len(id) <= MaxIdLen
    /\ id \notin {<<".">>, <<".", ".">>}
    /\ {"/", "*", "?", "ctl"} \cap Range(id) = {}

Services == {<<"f", "s">>}

ValidAction(action) ==
    LET parts == SplitAt(action, ":", 3)
    IN  Len(parts) = 2 /\ parts[1] \in Services /\ parts[2] # <<>>

\* The ARN's fields are words here, not letters: "arn" is one character.
ValidArn(text) ==
    LET parts == SplitAt(text, ":", 6)
    IN  /\ Len(parts) = 6
        /\ parts[1] = <<"arn">> /\ parts[2] = <<"lakefs">>
        /\ parts[3] # <<>> /\ parts[6] # <<>>

AllResources == <<"*">>

\* A resource is the wildcard, an ARN, or a JSON array of those.
ValidResource(resource) ==
    CASE resource.kind = "text" -> resource.text = AllResources \/ ValidArn(resource.text)
      [] resource.kind = "list" ->
             /\ resource.items # <<>>
             /\ \A item \in Range(resource.items) : item = AllResources \/ ValidArn(item)

ValidStatement(statement) ==
    /\ statement.action # <<>>
    /\ \A action \in Range(statement.action) : ValidAction(action)
    /\ ValidResource(statement.resource)

ValidStatements(statements) ==
    statements # <<>> /\ \A s \in Range(statements) : ValidStatement(s)

ValidPolicy(name, statements) == ValidEntityId(name) /\ ValidStatements(statements)

(***************************************************************************)
(* A name in a request path (text.rs, lakefs-authz-client).                *)
(***************************************************************************)
Unreserved == {"a", "b", ".", "-", "_"}

\* Everything but the unreserved characters is percent encoded.
PathSegment(text) ==
    [i \in DOMAIN text |->
        <<IF text[i] \in Unreserved THEN "as is" ELSE "encoded", text[i]>>]

Dot == <<"as is", ".">>

\* The path of one entity below the base URL, or nothing for an id the rule
\* refuses: such a request never leaves the client.
Segment(id) == IF ValidEntityId(id) THEN <<PathSegment(id)>> ELSE <<>>

\* Joining a relative path, words of the API and one more segment, onto the base
\* URL: a "." segment is dropped and ".." takes the one before it away.
JoinUrl(words, segment) ==
    CASE segment = <<Dot>> -> words
      [] segment = <<Dot, Dot>> -> Front(words)
      [] OTHER -> Append(words, segment)

\* The router takes a path of two words and a segment, and decodes that one.
Routed(path) ==
    IF Len(path) = 3 THEN [i \in DOMAIN path[3] |-> path[3][i][2]] ELSE <<>>

(***************************************************************************)
(* A prefix in a LIKE pattern (pagination.rs escape_like_prefix).          *)
(***************************************************************************)
\* Fault: the escape character itself is not escaped.
EscapeLikePrefix_KeepsBackslash(prefix) ==
    LET out[i \in 0..Len(prefix)] ==
            IF i = 0 THEN <<>>
            ELSE IF prefix[i] \in {"%", "_"}
            THEN Append(Append(out[i - 1], "\\"), prefix[i])
            ELSE Append(out[i - 1], prefix[i])
    IN  out[Len(prefix)]

\* Character by character, with a backslash before each special one.
EscapeLikePrefix(prefix) ==
    LET out[i \in 0..Len(prefix)] ==
            IF i = 0 THEN <<>>
            ELSE IF prefix[i] \in {"\\", "%", "_"}
            THEN Append(Append(out[i - 1], "\\"), prefix[i])
            ELSE Append(out[i - 1], prefix[i])
    IN  out[Len(prefix)]

\* PostgreSQL's LIKE with the backslash as escape character reads the pattern
\* from left to right: `at` is the set of lengths of the beginnings of the text
\* that match so far, and `reads` tells whether the next character is escaped.
LikeStep(text, state, char) ==
    LET same == {i \in 1..Len(text) : i - 1 \in state.at /\ text[i] = char}
    IN  CASE state.reads = "escaped" -> [at |-> same, reads |-> "plain"]
          [] state.reads = "plain" /\ char = "\\" -> [at |-> state.at, reads |-> "escaped"]
          [] state.reads = "plain" /\ char = "%" ->
                 [at |-> {i \in 0..Len(text) : \E k \in state.at : k <= i}, reads |-> "plain"]
          [] state.reads = "plain" /\ char = "_" ->
                 [at |-> {i \in 1..Len(text) : i - 1 \in state.at}, reads |-> "plain"]
          [] OTHER -> [at |-> same, reads |-> "plain"]

Like(text, pattern) ==
    LET run[j \in 0..Len(pattern)] ==
            IF j = 0 THEN [at |-> {0}, reads |-> "plain"]
            ELSE LikeStep(text, run[j - 1], pattern[j])
    IN  run[Len(pattern)].reads = "plain" /\ Len(text) \in run[Len(pattern)].at

(***************************************************************************)
(* Where a login may end (util/redirect.rs).  A target is a relative text  *)
(* or an absolute URL with a scheme, a host and a port ("" for the         *)
(* scheme's default, which is how the URL parser reports it); an allow     *)
(* list entry has a scheme or "" for any.                                  *)
(***************************************************************************)
\* Fault: only the plain spelling.
IsProtocolRelative_SlashOnly(text) ==
    Len(text) >= 2 /\ text[1] = "/" /\ text[2] = "/"

IsProtocolRelative(text) ==
    Len(text) >= 2 /\ text[1] = "/" /\ text[2] \in {"/", "\\", "%2f", "%5c"}

Allows(entry, url) ==
    /\ entry.scheme \in {"", url.scheme}
    /\ entry.host = url.host /\ entry.port = url.port

SafeNext(next, allowed) ==
    IF next.kind = "relative"
    THEN /\ next.text # <<>>
         /\ "ctl" \notin Range(next.text)
         /\ next.text[1] = "/"
         /\ ~IsProtocolRelative(next.text)
    ELSE /\ next.scheme \in {"http", "https"}
         /\ \E entry \in allowed : Allows(entry, next)

\* What the browser is sent to: the post-login URL without a `next`, an
\* absolute target as it is, a relative one joined onto an absolute post-login
\* URL or left relative to this server's own origin.
ResolveNext(postLogin, next) ==
    CASE next.kind = "none" -> postLogin
      [] next.kind = "absolute" -> next
      [] next.kind = "relative" /\ postLogin.kind = "absolute" ->
             [postLogin EXCEPT !.text = next.text]
      [] next.kind = "relative" /\ postLogin.kind = "relative" -> next

Origin(url) == [scheme |-> url.scheme, host |-> url.host, port |-> url.port]

\* Where a browser, behind a proxy that decodes the path, finds an authority in
\* a path: controls are dropped, and the first two characters left are slashes
\* or backslashes.
NamesAuthority(text) ==
    LET kept == {i \in DOMAIN text : text[i] # "ctl"}
    IN  \E i, j \in kept :
            /\ i < j /\ \A k \in kept : k \in {i, j} \/ k > j
            /\ {text[i], text[j]} \subseteq {"/", "\\", "%2f", "%5c"}

\* Where it ends up.
BrowserOrigin(own, target) ==
    CASE target.kind = "absolute" -> Origin(target)
      [] target.kind = "relative" /\ NamesAuthority(target.text) ->
             [scheme |-> "", host |-> "named by the path", port |-> ""]
      [] OTHER -> Origin(own)

(***************************************************************************)
(* Properties, of one input each.                                          *)
(***************************************************************************)

\* A PostgreSQL list with a prefix returns the rows the in-memory store does:
\* the LIKE pattern made from a prefix matches exactly the names that start
\* with it, whatever wildcards and escapes the prefix itself contains.
LikeIsPrefix(in) ==
    Like(in.text, Append(EscapeLikePrefix(in.prefix), "%")) <=> IsPrefix(in.prefix, in.text)

\* An identifier the rules accept names its own entity in a request path: after
\* the client encoded it, the URL join normalised the path and the router
\* decoded the segment, it is the same identifier.  Refused ones are not sent.
PathNamesItsEntity(in) ==
    LET words == <<PathSegment(<<"a">>), PathSegment(<<"b">>)>>
        segment == Segment(in.text)
    IN  segment # <<>> => Routed(JoinUrl(words, segment[1])) = in.text

\* A login ends on this server's origin, on the configured post-login origin,
\* or, for an absolute `next`, on an origin the allow list names, its scheme and
\* port included: also when a proxy decodes the path of an accepted `next`.
LoginEndsAtAllowedOrigin(in) ==
    in.next.kind = "none" \/ SafeNext(in.next, in.allowed) =>
        LET origin == BrowserOrigin(in.own, ResolveNext(in.postLogin, in.next))
        IN  IF in.next.kind = "absolute"
            THEN \E entry \in in.allowed : Allows(entry, origin)
            ELSE origin = IF in.postLogin.kind = "absolute"
                          THEN Origin(in.postLogin) ELSE Origin(in.own)
=============================================================================
