---------------------------- MODULE URLStringUtil ----------------------------
(***************************************************************************)
(* The functions that split URLs (src/src/URLStringUtil.cpp), as operators *)
(* on sequences of symbols, and grammars they are compared with.  Each     *)
(* returns its verdict and the output parameters as the function leaves    *)
(* them, whether or not it succeeds: several callers do not look at the    *)
(* verdict.  A symbol is a character, or one of the words parseSFTPUrl     *)
(* looks for; no word occurs inside another.                               *)
(***************************************************************************)
EXTENDS Integers, Sequences, SequencesExt

Characters == {":", "/", ".", "@", "x"}
Words == {"pubkey_identifier", "privkey_identifier", "key_passphrase"}
Symbols == Characters \cup Words

Empty == << >>

\* std::string::find and rfind of one symbol: its position, 0 for npos.
Find(s, c) == SelectInSeq(s, LAMBDA e : e = c)
RFind(s, c) == SelectLastInSeq(s, LAMBDA e : e = c)

\* substr: what comes before position i, and from i on.
Before(s, i) == SubSeq(s, 1, i - 1)
From(s, i) == SubSeq(s, i, Len(s))

Has(s, c) == Find(s, c) # 0

-----------------------------------------------------------------------------
(* The functions. *)

\* The first "://" in a url, 0 if there is none.
SchemeEnd(url) ==
  SelectInSeq([i \in 1..(Len(url) - 2) |-> SubSeq(url, i, i + 2)], LAMBDA w : w = <<":", "/", "/">>)

\* Mutant: the first dot of the base instead of the last.
getURLComponentsFirstDot(url) ==
  LET index == SchemeEnd(url)
      base == From(url, index + 3)
      dot == Find(base, ".")
  IN  IF index = 0
        THEN [ok |-> FALSE, prefix |-> Empty, base |-> Empty, extension |-> Empty]
        ELSE [ok |-> TRUE, prefix |-> Before(url, index), base |-> base,
              extension |-> IF dot = 0 THEN Empty ELSE From(base, dot + 1)]

getURLComponents(url) ==
  LET index == SchemeEnd(url)
      base == From(url, index + 3)
      dot == RFind(base, ".")
  IN  IF index = 0
        THEN [ok |-> FALSE, prefix |-> Empty, base |-> Empty, extension |-> Empty]
        ELSE [ok |-> TRUE, prefix |-> Before(url, index), base |-> base,
              extension |-> IF dot = 0 THEN Empty ELSE From(base, dot + 1)]

DefaultPort == <<"443">>

parseHTTPUrl(url) ==
  LET index == Find(url, "/")
      authority == Before(url, index)
      colon == Find(authority, ":")
      port == IF colon = 0 THEN DefaultPort ELSE From(authority, colon + 1)
      host == IF colon = 0 THEN authority ELSE Before(authority, colon)
  IN  IF index = 0
        THEN [ok |-> FALSE, host |-> Empty, path |-> Empty, port |-> Empty]
      ELSE IF authority = Empty
        THEN [ok |-> FALSE, host |-> Empty, path |-> url, port |-> Empty]
        ELSE [ok |-> port # Empty /\ host # Empty, host |-> host, path |-> From(url, index), port |-> port]

parseIPFSUrl(url) ==
  LET index == Find(url, "/")
  IN  IF index = 0
        THEN [ok |-> FALSE, cid |-> Empty, file |-> Empty]
        ELSE [ok |-> index > 1, cid |-> Before(url, index), file |-> From(url, index + 1)]

\* What follows a word in a password, less one optional colon.
KeyFile(pass, word) ==
  LET rest == From(pass, Find(pass, word) + 1)
  IN  IF rest # Empty /\ rest[1] = ":" THEN Tail(rest) ELSE rest

NoCredentials == [user |-> Empty, pass |-> Empty, publickey_file |-> Empty,
                  privatekey_file |-> Empty, privatekey_pass |-> Empty]

\* User and password, or the key the password names; a private key may have a
\* passphrase.
Credentials(login) ==
  LET colon == Find(login, ":")
      user == IF colon = 0 THEN login ELSE Before(login, colon)
      pass == IF colon = 0 THEN Empty ELSE From(login, colon + 1)
      key == KeyFile(pass, "privkey_identifier")
      phrase == Find(key, "key_passphrase")
  IN  IF login = Empty THEN NoCredentials
      ELSE IF Has(pass, "pubkey_identifier")
        THEN [NoCredentials EXCEPT !.user = user, !.publickey_file = KeyFile(pass, "pubkey_identifier")]
      ELSE IF Has(pass, "privkey_identifier")
        THEN [NoCredentials EXCEPT !.user = user,
                !.privatekey_file = IF phrase = 0 THEN key ELSE Before(key, phrase),
                !.privatekey_pass = IF phrase = 0 THEN Empty ELSE From(key, phrase + 1)]
        ELSE [NoCredentials EXCEPT !.user = user, !.pass = pass]

parseSFTPUrl(url) ==
  LET at == Find(url, "@")
      place == From(url, at + 1)
      slash == Find(place, "/")
  IN  [login |-> Credentials(Before(url, at)),
       ok |-> slash > 1,
       host |-> IF slash = 0 THEN place ELSE Before(place, slash),
       path |-> IF slash = 0 THEN Empty ELSE From(place, slash)]

-----------------------------------------------------------------------------
(* Grammars: every way to put a url together from parts. *)

Splits(s) == {<<SubSeq(s, 1, i), SubSeq(s, i + 1, Len(s))>> : i \in 0..Len(s)}

\* The ways to split s at a c, the first one if the left part may have none.
SplitsAt(s, c) == {<<p[1], Tail(p[2])>> : p \in {q \in Splits(s) : q[2] # Empty /\ q[2][1] = c}}
FirstSplits(s, c) == {p \in SplitsAt(s, c) : ~Has(p[1], c)}

\* scheme "://" base, the scheme as short as it can be.
ComponentsGrammar(url) ==
  LET all == {p \in Splits(url) : \E rest \in Splits(p[2]) : rest[1] = <<":", "/", "/">>}
  IN  {[prefix |-> p[1], base |-> SubSeq(p[2], 4, Len(p[2]))] :
         p \in {q \in all : \A r \in all : Len(q[1]) <= Len(r[1])}}

\* name "." extension, the extension without a dot; or no dot at all.
ExtensionGrammar(base) ==
  IF Has(base, ".") THEN {p[2] : p \in {q \in SplitsAt(base, ".") : ~Has(q[2], ".")}} ELSE {Empty}

\* host ":" port "/" path, or host "/" path; the port may hold further colons.
HTTPGrammar(url) ==
  UNION {LET w == <<"/">> \o p[2] IN
           {[host |-> q[1], port |-> q[2], path |-> w] :
              q \in {r \in FirstSplits(p[1], ":") : r[1] # Empty /\ r[2] # Empty}}
           \cup (IF Has(p[1], ":") \/ p[1] = Empty THEN {}
                 ELSE {[host |-> p[1], port |-> DefaultPort, path |-> w]})
         : p \in FirstSplits(url, "/")}

IPFSGrammar(url) ==
  {[cid |-> p[1], file |-> p[2]] : p \in {q \in FirstSplits(url, "/") : q[1] # Empty}}

\* user ":" secret, where the secret is a password, or names a key file.
LoginGrammar(login) ==
  {[user |-> p[1], secret |-> p[2]] :
     p \in FirstSplits(login, ":") \cup (IF Has(login, ":") THEN {} ELSE {<<login, Empty>>})}

\* login "@" host "/" path; a url without a login may hold no "@".
SFTPGrammar(url) ==
  UNION {{[login |-> p[1], host |-> q[1], path |-> <<"/">> \o q[2]] :
            q \in {r \in FirstSplits(p[2], "/") : r[1] # Empty}}
         : p \in FirstSplits(url, "@") \cup (IF Has(url, "@") THEN {} ELSE {<<Empty, url>>})}
=============================================================================
