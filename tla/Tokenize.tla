------------------------------ MODULE Tokenize ------------------------------
(***************************************************************************)
(* From text to token ids: the normalizer (normalize.rs) and the tokenizer *)
(* with its two word caches (tokenize.rs, cache.rs), as operators.         *)
(*                                                                         *)
(* A text is a sequence of stems, the words between white space.  What is  *)
(* left of a word after a cut is <<stem, n>>, its first n bytes.           *)
(***************************************************************************)
EXTENDS Subsequence, FiniteSets, FiniteSetsExt, SequencesExt

CONSTANTS
    Stem,       \* the words, as written and as normalized
    None,       \* no word
    Clean,      \* what the patterns, lowercasing and the letter test leave of a word
    Bytes,      \* length of a stem in bytes
    Width,      \* bytes per character of a stem
    MaxBytes,   \* NormalizerConfig::max_chars (Config::truncation), in bytes
    MinBytes,   \* NormalizerConfig::min_chars, in bytes
    Prefix,     \* the words of NormalizerConfig::prefix, which ends in a space
    Encode,     \* Tokenizer::encode of a word, <<3>> where it fails
    VocabFile,  \* vocab_cache.bin: entries <<word, ids>>
    RuntimeMax, \* RUNTIME_CACHE_MAX (500_000)
    KeyMax,     \* longest word, in bytes, the runtime cache takes (45)
    Cls, Sep,   \* ids of the special tokens
    MaxLen      \* the longest bucket

Word == {w \in Stem \X Nat : w[2] \in 1..Bytes[w[1]]}

ASSUME TextAssumption ==
    /\ None \notin Stem
    /\ Clean \in [Stem -> Stem \cup {None}]
    /\ Bytes \in [Stem -> Nat \ {0}] /\ Width \in [Stem -> Nat \ {0}]
    /\ \A s \in Stem : Bytes[s] % Width[s] = 0
    /\ Prefix \in Seq(Word)
    /\ MaxBytes \in Nat \ {0} /\ MinBytes \in Nat
    /\ MaxLen \in Nat \ {0} /\ RuntimeMax \in Nat /\ KeyMax \in Nat

\* Words become ids, and vocab_cache.bin was written with the same encoder.
ASSUME EncoderAssumption ==
    /\ Cls \in Nat /\ Sep \in Nat
    /\ \A s \in Stem : \A n \in 1..Bytes[s] : Encode[<<s, n>>] \in Seq(Nat)
    /\ VocabFile \in Seq(Word \X Seq(Nat))
    /\ \A i \in DOMAIN VocabFile : VocabFile[i][2] = Encode[VocabFile[i][1]]

-----------------------------------------------------------------------------
(* Normalizer::normalize. *)

\* Steps 1 to 5: noise is removed, the rest lowercased.
CleanWords(t) == Kept([i \in DOMAIN t |-> Clean[t[i]]], Stem)

\* The length of the words joined by single spaces.
Joined(ws) == FoldLeft(LAMBDA n, s : n + Bytes[s] + (IF n = 0 THEN 0 ELSE 1), 0, ws)

\* truncate_utf8 of the joined words: MaxBytes, rounded down to a character.
Cut(ws) ==
    LET start(i) == IF i = 1 THEN 0 ELSE Joined(SubSeq(ws, 1, i - 1)) + 1
        room(i)  == IF start(i) < MaxBytes THEN MaxBytes - start(i) ELSE 0
        kept(i)  == IF room(i) >= Bytes[ws[i]] THEN Bytes[ws[i]]
                    ELSE room(i) - (room(i) % Width[ws[i]])
        split    == {i \in DOMAIN ws : room(i) \in 1..(Bytes[ws[i]] - 1)}
    IN  [words |-> Kept([i \in DOMAIN ws |-> <<ws[i], kept(i)>>], Word),
         bytes |-> IF Joined(ws) <= MaxBytes THEN Joined(ws)
                   ELSE IF split = {} THEN MaxBytes
                   ELSE LET i == CHOOSE j \in split : TRUE IN start(i) + kept(i)]

\* Mutant: the text is cut before the noise is removed.
Normalize_CutFirst(t) ==
    LET cut == Cut(t).words
    IN  Cut(CleanWords([i \in DOMAIN cut |-> cut[i][1]]))

\* Steps 1 to 6; step 7 is Rejected.
Normalize(t) == Cut(CleanWords(t))

\* Step 7: too short, counted after the cut and without the prefix.
Rejected(t) == Normalize(t).bytes < MinBytes

\* Step 8: the text handed to the tokenizer.
Normalized(t) == Prefix \o Normalize(t).words

-----------------------------------------------------------------------------
(* CachedTokenizer. *)

\* cache::load: a later entry for the same word replaces an earlier one.
Static ==
    [w \in {VocabFile[i][1] : i \in DOMAIN VocabFile} |->
        VocabFile[Max({i \in DOMAIN VocabFile : VocabFile[i][1] = w})][2]]

EmptyCache == [runtime |-> [w \in {} |-> <<>>], hits |-> 0, misses |-> 0]

\* What lookup_word returns.
Found(c, w) ==
    IF w \in DOMAIN Static THEN Static[w]
    ELSE IF w \in DOMAIN c.runtime THEN c.runtime[w]
    ELSE Encode[w]

\* The runtime cache with another word, if it takes it.
Stored(runtime, w, ids) ==
    IF Cardinality(DOMAIN runtime) < RuntimeMax /\ w[2] <= KeyMax
    THEN [v \in DOMAIN runtime \cup {w} |-> IF v = w THEN ids ELSE runtime[v]]
    ELSE runtime

\* What lookup_word leaves behind.
LookedUp(c, w) ==
    IF w \in DOMAIN Static \cup DOMAIN c.runtime THEN [c EXCEPT !.hits = @ + 1]
    ELSE [c EXCEPT !.misses = @ + 1, !.runtime = Stored(@, w, Encode[w])]

\* Mutant: the cache keeps what there was room for, not what encode returned.
AddWord_CutCached(s, w) ==
    LET found == Found(s.cache, w)
        taken == SubSeq(found, 1, Min({Len(found), MaxLen - 1 - Len(s.ids)}))
    IN  IF Len(s.ids) >= MaxLen - 1 THEN s
        ELSE [cache |-> IF w \in DOMAIN Static \cup DOMAIN s.cache.runtime
                        THEN LookedUp(s.cache, w)
                        ELSE [LookedUp(s.cache, w) EXCEPT
                                 !.runtime = Stored(s.cache.runtime, w, taken)],
              ids |-> s.ids \o taken]

\* One turn of the loop in tokenize_one.
AddWord(s, w) ==
    LET found == Found(s.cache, w)
        taken == SubSeq(found, 1, Min({Len(found), MaxLen - 1 - Len(s.ids)}))
    IN  IF Len(s.ids) >= MaxLen - 1 THEN s
        ELSE [cache |-> LookedUp(s.cache, w), ids |-> s.ids \o taken]

\* tokenize_one: the ids, and the cache afterwards.
TokenizeOne(c, words) ==
    LET s == FoldLeft(AddWord, [cache |-> c, ids |-> <<Cls>>], words)
    IN  [s EXCEPT !.ids = Append(@, Sep)]

-----------------------------------------------------------------------------
(* What they are meant to compute. *)

\* The ids of all words, as many as fit between the special tokens.
RefTokens(words) ==
    LET content == FlattenSeq([i \in DOMAIN words |-> Encode[words[i]]])
    IN  <<Cls>> \o SubSeq(content, 1, Min({Len(content), MaxLen - 2})) \o <<Sep>>

\* The bytes of a text that carry words, white space normalized.
CleanBytes(t) == Joined(CleanWords(t))
=============================================================================
