----------------------------- MODULE MCScanner -----------------------------
(***************************************************************************)
(* Texts for TLC: all the short ones over characters that are hard to tell *)
(* apart, and the keywords with what makes them identifiers.               *)
(***************************************************************************)
EXTENDS ScannerReference

\* All texts over some characters, up to a length.
Short(chars, length) == UNION {[1..n -> chars] : n \in 0..length}

SomeLetters == {"a", "b", "c", "d", "e", "f", "h", "i", "l", "n", "o", "r", "s", "t",
                "u", "v", "w"}
SomeDigits == {"0", "1", "2", "3", "4", "6", "8"}
SomeCharacters ==
    SomeLetters \cup SomeDigits \cup SymbolStarts
        \cup {" ", "\r", "\t", "\n", "\"", "'", "\\", "_", "@", "$", NUL}

Numbers == Short({"a", "1", ".", "_", " "}, 5)
Comments == Short({"/", "*", "\n", "a", "\""}, 5)
CharactersAndStrings == Short({"'", "\\", "n", "\n", "\"", "@"}, 4)
Symbols == Short({"<", ">", "=", "-", "+", "&", "|", "!", ":", "*", "/"}, 3)
Mixed == Short({"a", "1", "'", "\"", "/", "\n", "%", "^", "(", ";", "~", "$"}, 3)

\* Each keyword, and it without its last letter, with one more, after one.
Words ==
    UNION {{word, SubSeq(word, 1, Len(word) - 1), Append(word, "2"), <<"_">> \o word,
            word \o <<" ">> \o word} : word \in s_Keywords}
        \cup {<<c>> : c \in SymbolStarts \cup Blanks}

AllTexts == Numbers \cup Comments \cup CharactersAndStrings \cup Symbols \cup Mixed \cup Words
SourceTexts == AllTexts
=============================================================================
