----------------------------- MODULE Usernames -----------------------------
(***************************************************************************)
(* The user names of proxy credentials (internal/core/session.go):         *)
(* ParseSessionUsername and ParseStructuredUsername, and the forms that    *)
(* docs/sessions.md documents, from which a parse can be checked.          *)
(*                                                                         *)
(* A user name is a sequence of tokens: the separators, which are all the  *)
(* parsers look for, and words.  A word stands for a maximal text without  *)
(* separators, so no two words are adjacent.  White space is left out.     *)
(***************************************************************************)
EXTENDS Integers, Sequences
LOCAL INSTANCE SequencesExt

CONSTANTS
    Duration,   \* the unsigned words that time.ParseDuration accepts -> their value
    Lower,      \* word -> in lower case
    Upper,      \* word -> in upper case
    SessionWord,    \* the words that client-chosen sessions are made of
    PluginWord,     \* those written for a plugin
    RegionWord      \* those written for a country

Separator == {"-", "~", "="}
Key == {"fast", "plugin", "region", "session", "ttl"}

\* Words are free of separators; the parser's own words are in lower case, and
\* fast is no duration.
ASSUME WordAssumption ==
    /\ \A w \in DOMAIN Duration : Duration[w] \in Int
    /\ SessionWord \cup PluginWord \cup RegionWord \subseteq DOMAIN Lower \cap DOMAIN Upper
    /\ (SessionWord \cup PluginWord \cup RegionWord \cup DOMAIN Duration) \cap Separator = {}
    /\ "fast" \notin DOMAIN Duration
    /\ \A w \in DOMAIN Lower : w \in Key \cup {"true"} => Lower[w] = w

Refused == [ok |-> FALSE]

\* SessionInfo; ttl 0 stands for "none given".
Info(session, ttl, plugin, region, fast) ==
    [ok |-> TRUE, session |-> session, ttl |-> ttl, plugin |-> plugin,
     region |-> region, fast |-> fast]

Fold(f, text) == [i \in DOMAIN text |-> IF text[i] \in DOMAIN f THEN f[text[i]]
                                                                ELSE text[i]]

\* time.ParseDuration; the sign is a separator of the legacy form, so that only a
\* value of the structured form can be negative.
IsDuration(text) ==
    \/ Len(text) = 1 /\ text[1] \in DOMAIN Duration
    \/ Len(text) = 2 /\ text[1] = "-" /\ text[2] \in DOMAIN Duration

DurationOf(text) == IF Len(text) = 1 THEN Duration[text[1]] ELSE -Duration[text[2]]

Clamp(ttl, defaultTTL, maxTTL) ==
    LET given == IF ttl <= 0 THEN defaultTTL ELSE ttl
    IN  IF maxTTL > 0 /\ given > maxTTL THEN maxTTL ELSE given

-----------------------------------------------------------------------------
(* The form <credential>-<session>-<ttl>-fast.                              *)

FastSuffix == <<"-", "fast">>

TrimPrefix(name, prefix) == SubSeq(name, Len(prefix) + 1, Len(name))
TrimSuffix(name, suffix) == SubSeq(name, 1, Len(name) - Len(suffix))

\* Mutation of Expression: a lifetime needs no session before it.
ExpressionUnguarded(rest, fast, defaultTTL, maxTTL) ==
    LET i == SelectLastInSeq(rest, LAMBDA t : t = "-")
        last == SubSeq(rest, i + 1, Len(rest))
    IN  IF IsDuration(last)
          THEN Info(SubSeq(rest, 1, i - 1), Clamp(DurationOf(last), defaultTTL, maxTTL),
                    <<>>, <<>>, fast)
          ELSE Info(rest, Clamp(defaultTTL, defaultTTL, maxTTL), <<>>, <<>>, fast)

\* The last "-" splits off a lifetime if text that can be a session precedes it
\* and a duration follows.  rest is not empty.
Expression(rest, fast, defaultTTL, maxTTL) ==
    LET i == SelectLastInSeq(rest, LAMBDA t : t = "-")
        last == SubSeq(rest, i + 1, Len(rest))
    IN  IF i > 1 /\ IsDuration(last)
          THEN Info(SubSeq(rest, 1, i - 1), Clamp(DurationOf(last), defaultTTL, maxTTL),
                    <<>>, <<>>, fast)
          ELSE Info(rest, Clamp(defaultTTL, defaultTTL, maxTTL), <<>>, <<>>, fast)

ParseLegacyUsername(username, credential, defaultTTL, maxTTL) ==
    LET fast == IsSuffix(FastSuffix, username)
        name == IF fast THEN TrimSuffix(username, FastSuffix) ELSE username
        prefix == Append(credential, "-")
        rest == TrimPrefix(name, prefix)
    IN  IF username = credential \o FastSuffix THEN Info(<<>>, 0, <<>>, <<>>, TRUE)
        ELSE IF name = credential     THEN Info(<<>>, 0, <<>>, <<>>, fast)
        ELSE IF ~IsPrefix(prefix, name) THEN Refused
        ELSE IF rest = <<>>           THEN Info(<<>>, 0, <<>>, <<>>, FALSE)
        ELSE Expression(rest, fast, defaultTTL, maxTTL)

-----------------------------------------------------------------------------
(* The form <credential>~<key>=<value>~...                                  *)

Cuts(text, separator) == {i \in 1 .. Len(text) : text[i] = separator}

\* Where the part behind position i ends: before a separator or with the text.
Stops(text, separator, i, j) ==
    /\ j \in Cuts(text, separator) \cup {Len(text) + 1}
    /\ i < j /\ \A k \in Cuts(text, separator) : ~(i < k /\ k < j)

\* The parts of a text, each under the position of the separator before it.
Split(text, separator) ==
    [i \in {0} \cup Cuts(text, separator) |->
        SubSeq(text, i + 1, (CHOOSE j \in 1 .. Len(text) + 1 : Stops(text, separator, i, j)) - 1)]

\* strings.SplitN(part, "=", 2)
KeyValue(part) ==
    LET i == SelectInSeq(part, LAMBDA t : t = "=")
    IN  [key |-> Fold(Lower, SubSeq(part, 1, i - 1)),
         val |-> SubSeq(part, i + 1, Len(part))]

\* Each part is a known key and a value, and no key is given twice.
WellFormed(parts) ==
    /\ \A i \in DOMAIN parts : LET kv == KeyValue(parts[i]) IN
          /\ Contains(parts[i], "=")
          /\ Len(kv.key) = 1 /\ kv.key[1] \in Key
          /\ kv.val # <<>>
          /\ kv.key = <<"fast">> => Fold(Lower, kv.val) = <<"true">>
    /\ \A i, j \in DOMAIN parts : i # j => KeyValue(parts[i]).key # KeyValue(parts[j]).key

\* The value of a key, or the empty text.
Value(parts, key) ==
    LET given == {i \in DOMAIN parts : KeyValue(parts[i]).key = <<key>>}
    IN  IF given = {} THEN <<>> ELSE KeyValue(parts[CHOOSE i \in given : TRUE]).val

\* The lifetime of a session; there is none without a session.
Lifetime(session, ttl, defaultTTL, maxTTL) ==
    IF session = <<>> THEN 0
    ELSE Clamp(IF ttl = <<>> THEN 0 ELSE DurationOf(ttl), defaultTTL, maxTTL)

ParseStructuredUsername(username, credential, defaultTTL, maxTTL) ==
    LET all     == Split(username, "~")
        parts   == [i \in DOMAIN all \ {0} |-> all[i]]
        session == Value(parts, "session")
        ttl     == Value(parts, "ttl")
    IN  IF \/ all[0] # credential \/ ~WellFormed(parts)
           \/ ttl # <<>> /\ (session = <<>> \/ ~IsDuration(ttl))
          THEN Refused
          ELSE Info(session, Lifetime(session, ttl, defaultTTL, maxTTL),
                    Fold(Lower, Value(parts, "plugin")),
                    Fold(Upper, Value(parts, "region")),
                    Value(parts, "fast") # <<>>)

ParseSessionUsername(username, credential, defaultTTL, maxTTL) ==
    IF Contains(username, "~")
      THEN ParseStructuredUsername(username, credential, defaultTTL, maxTTL)
      ELSE ParseLegacyUsername(username, credential, defaultTTL, maxTTL)

-----------------------------------------------------------------------------
(* What docs/sessions.md documents: what a client can ask for, and how it   *)
(* writes that down.                                                        *)

Optional(texts) == texts \cup {<<>>}
Single(words)   == {<<w>> : w \in words}
Ttl == Single({w \in DOMAIN Duration : Duration[w] > 0})

\* One word, or two joined by "-".
SessionText ==
    Single(SessionWord)
    \cup {<<v, "-", w>> : v, w \in SessionWord}

\* What a client may ask for.  A lifetime is only given with a session.
Wish ==
    {w \in [session : Optional(SessionText), ttl : Optional(Ttl), fast : BOOLEAN,
            plugin : Optional(Single(PluginWord)), region : Optional(Single(RegionWord))] :
        w.session = <<>> => w.ttl = <<>>}

EndsInDuration(text) ==
    \E w \in DOMAIN Duration : IsSuffix(<<"-", w>>, text)

\* A session that reads as a suffix needs the structured form.
HasLegacyForm(w) ==
    /\ w.plugin = <<>> /\ w.region = <<>>
    /\ w.ttl = <<>> => ~EndsInDuration(w.session)
    /\ ~w.fast /\ w.ttl = <<>> => ~IsSuffix(FastSuffix, <<"-">> \o w.session)

Suffix(text) == IF text = <<>> THEN <<>> ELSE <<"-">> \o text

LegacyForm(w, credential) ==
    credential \o Suffix(w.session) \o Suffix(w.ttl)
               \o (IF w.fast THEN FastSuffix ELSE <<>>)

\* What a wish says for a key.
Text(w, key) ==
    IF key = "fast" THEN (IF w.fast THEN <<"true">> ELSE <<>>) ELSE w[key]

Part(w, key) ==
    IF Text(w, key) = <<>> THEN <<>> ELSE <<"~", key, "=">> \o Text(w, key)

StructuredForm(w, credential, o) ==
    credential \o Part(w, o[1]) \o Part(w, o[2]) \o Part(w, o[3]) \o Part(w, o[4])
               \o Part(w, o[5])

\* Two orders of the keys, one the opposite of the other.
KeyOrders == {<<"plugin", "region", "session", "ttl", "fast">>,
              <<"fast", "ttl", "session", "region", "plugin">>}

Meaning(w, defaultTTL, maxTTL) ==
    LET min(a, b) == IF a < b THEN a ELSE b
    IN  Info(w.session,
             IF w.session = <<>> THEN 0
             ELSE min(maxTTL, IF w.ttl = <<>> THEN defaultTTL ELSE Duration[w.ttl[1]]),
             Fold(Lower, w.plugin), Fold(Upper, w.region), w.fast)

\* Every documented way to write a wish is understood as that wish.
FormsAreUnderstood(credential, defaultTTL, maxTTL) ==
    \A w \in Wish :
        LET forms == {StructuredForm(w, credential, o) : o \in KeyOrders}
                     \cup (IF HasLegacyForm(w) THEN {LegacyForm(w, credential)} ELSE {})
        IN  \A name \in forms :
              ParseSessionUsername(name, credential, defaultTTL, maxTTL)
                = Meaning(w, defaultTTL, maxTTL)
=============================================================================
