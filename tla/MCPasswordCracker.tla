------------------------- MODULE MCPasswordCracker -------------------------
(***************************************************************************)
(* Dictionaries of one word of one to three letters over {a, b}, and one   *)
(* of two words; two digits; two workers; stdin with two hashes (one       *)
(* crackable) before an empty line, with the same hash twice, with no      *)
(* hash, or with a malformed line.                                         *)
(***************************************************************************)
EXTENDS PasswordCracker

MCWords == UNION {[1 .. n -> {"a", "b"}] : n \in 1 .. 3}
MCDictionaries == {<< w >> : w \in MCWords} \cup {<< <<"a">>, <<"b", "a">> >>}
MCDigits == << "0", "9" >>

Hash(pw) == [kind |-> "hash", pw |-> pw]
Blank == [kind |-> "blank"]
Bad == [kind |-> "bad"]

\* "a9" is a candidate of every dictionary holding "a"; "z" of none.  The
\* hash after the empty line is never read.
MCInputs ==
    { << Hash(<<"a", "9">>), Hash(<<"z">>), Blank, Hash(<<"9">>) >>,
      << Hash(<<"a", "9">>), Hash(<<"a", "9">>) >>,
      << >>,
      << Hash(<<"z">>), Bad >> }

\* A fresh buffer whose first byte is zero.
ZeroedBuffer == {<< >>}

\* A fresh buffer that may also start with a non-zero byte: glibc hands
\* out freed chunks, whose first bytes hold the free-list link.
DirtyBuffer == {<< >>, <<"?">>}
=============================================================================
