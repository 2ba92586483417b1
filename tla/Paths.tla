-------------------------------- MODULE Paths --------------------------------
(***************************************************************************)
(* std::filesystem::path on POSIX, as far as src/ uses it: iteration,      *)
(* operator/ and the file a relative path denotes.  A string is a sequence *)
(* of tokens: "/" and "\\" are separators of the two platforms, "." is the *)
(* dot, any other token stands for a piece of a file name, so that the     *)
(* name art_method is <<"art", "_method">> and contains the name art.      *)
(***************************************************************************)
EXTENDS Naturals, Sequences, SequencesExt

\* std::replace(..., '\\', '/')
TurnBackslashes(s) == [i \in DOMAIN s |-> IF s[i] = "\\" THEN "/" ELSE s[i]]

NameStarts(s) == {i \in DOMAIN s : s[i] # "/" /\ (i = 1 \/ s[i-1] = "/")}

NameFrom(s, i) ==
  LET j == CHOOSE j \in i..Len(s) :
             /\ j = Len(s) \/ s[j+1] = "/"
             /\ \A k \in i..j : s[k] # "/"
  IN  SubSeq(s, i, j)

FileNames(s) ==
  LET starts == NameStarts(s)
  IN  FlattenSeq([i \in DOMAIN s |-> IF i \in starts THEN <<NameFrom(s, i)>> ELSE <<>>])

\* for (const auto& segment : fs::path(s)): the root directory, the file names
\* between runs of slashes, and an empty name after a trailing slash.
Segments(s) ==
  LET names == FileNames(s)
  IN  (IF s # <<>> /\ s[1] = "/" THEN << <<"/">> >> ELSE <<>>)
      \o names
      \o (IF names # <<>> /\ Last(s) = "/" THEN << <<>> >> ELSE <<>>)

IsAbsolute(s) == s # <<>> /\ s[1] = "/"

\* (fs::path(p) / q).string()
Slash(p, q) ==
  IF IsAbsolute(q) \/ p = <<>> THEN q
  ELSE IF Last(p) = "/" THEN p \o q
  ELSE p \o <<"/">> \o q

\* The string that SearchPrefix builds by prefix = prefix / segment.
Joined(segments) ==
  LET prefix[n \in 0..Len(segments)] ==
        IF n = 0 THEN <<>> ELSE Slash(prefix[n - 1], segments[n])
  IN  prefix[Len(segments)]

\* The directory entry a path denotes, "." and empty names dropped: two
\* strings with the same Entry name the same file.
Entry(s) ==
  LET names == Segments(s)
      entry[n \in 0..Len(names)] ==
        IF n = 0 THEN <<>>
        ELSE IF names[n] \in {<<>>, <<".">>} THEN entry[n - 1]
        ELSE Append(entry[n - 1], names[n])
  IN  entry[Len(names)]
=============================================================================
