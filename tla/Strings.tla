------------------------------ MODULE Strings ------------------------------
(***************************************************************************)
(* lib/string.c.  Characters are numbers, 0 the null byte.  A string is a  *)
(* sequence without null bytes, Chars(s) the bytes it takes in memory; a   *)
(* buffer is a sequence of any bytes.  Pointers are indices from 1 on, and *)
(* NULLP is the null pointer.                                              *)
(***************************************************************************)
EXTENDS Integers, FiniteSets, SequencesExt

NULLP == 0
Chars(s) == Append(s, 0)

\* The string at index i of a buffer, and its length: strlen.
strlen(buf, i) == (CHOOSE j \in i..Len(buf) :
                     buf[j] = 0 /\ \A k \in i..(j - 1) : buf[k] # 0) - i
StringAt(buf, i) == SubSeq(buf, i, i + strlen(buf, i) - 1)
strnlen(s, maxlen) == IF Len(s) < maxlen THEN Len(s) ELSE maxlen

\* A copy, one byte after the other in the order of the sequence of offsets.
CopyBytes(mem, dst, src, order) ==
  FoldLeft(LAMBDA m, k : [m EXCEPT ![dst + k] = m[src + k]], mem, order)
Upwards(n) == [k \in 1..n |-> k - 1]
Downwards(n) == [k \in 1..n |-> n - k]

memcpy(mem, dst, src, size) == CopyBytes(mem, dst, src, Upwards(size))

\* memmove copies from the end when the destination is not below the source.
memmove(mem, dst, src, size) ==
  CopyBytes(mem, dst, src, IF dst < src THEN Upwards(size) ELSE Downwards(size))

memset(mem, dst, value, size) ==
  [i \in DOMAIN mem |-> IF i \in dst..(dst + size - 1) THEN value ELSE mem[i]]

\* The sign of the first difference.
memcmp(a, b, size) ==
  LET D == {i \in 1..size : a[i] # b[i]}
      f == CHOOSE i \in D : \A j \in D : i <= j
  IN  IF D = {} THEN 0 ELSE IF a[f] > b[f] THEN 1 ELSE -1

\* The loop stops at the end of a, or where the strings differ.
RECURSIVE strcmp(_, _)
strcmp(a, b) ==
  IF a # <<>> /\ b # <<>> /\ Head(a) = Head(b) THEN strcmp(Tail(a), Tail(b))
  ELSE LET x == Chars(a)[1]
           y == Chars(b)[1]
       IN  IF x < y THEN -1 ELSE IF x > y THEN 1 ELSE 0

\* The first index of s whose element is in C, or NULLP.
FirstIn(s, C) ==
  LET I == {i \in DOMAIN s : s[i] \in C}
  IN  IF I = {} THEN NULLP ELSE CHOOSE i \in I : \A j \in I : i <= j
memchr(block, ch, size) == FirstIn(SubSeq(block, 1, size), {ch})
strchr(s, c) == FirstIn(Chars(s), {c})

strcspn(s, stop) ==
  LET i == FirstIn(s, {c \in Range(s) : strchr(stop, c) # NULLP})
  IN  IF i = NULLP THEN Len(s) ELSE i - 1
strpbrk(s, stop) == FirstIn(s, {c \in Range(s) : strchr(stop, c) # NULLP})
strspn(s, skip) ==
  LET i == FirstIn(s, {c \in Range(s) : strchr(skip, c) = NULLP})
  IN  IF i = NULLP THEN Len(s) ELSE i - 1
strrchr(s, c) ==
  FoldLeftDomain(LAMBDA p, i : IF s[i] = c THEN i ELSE p, NULLP, s)

RECURSIVE StrstrFrom(_, _, _)
StrstrFrom(haystack, needle, i) ==
  IF i > Len(haystack) - Len(needle) THEN NULLP
  ELSE IF memcmp(SubSeq(haystack, i + 1, Len(haystack)), needle, Len(needle)) = 0
  THEN i + 1
  ELSE StrstrFrom(haystack, needle, i + 1)
strstr(haystack, needle) ==
  IF Len(haystack) >= Len(needle) THEN StrstrFrom(haystack, needle, 0) ELSE NULLP

\* Mutant: the position after the token is saved even at the end of the string.
strtok_r_PastEnd(buf, s, delims) ==
  LET n == strlen(buf, s)
      str == StringAt(buf, s)
      token == s + strspn(str, delims)
      e == token + strcspn(StringAt(buf, token), delims)
  IN  IF strspn(str, delims) = n
        THEN [token |-> NULLP, buf |-> buf, save |-> s + n]
        ELSE [token |-> token, buf |-> [buf EXCEPT ![e] = 0], save |-> e + 1]

\* One call of strtok_r from position s of the buffer, with its two loops over
\* delimiters and over the others; save is the new *save_ptr.
strtok_r(buf, s, delims) ==
  LET n == strlen(buf, s)
      str == StringAt(buf, s)
      token == s + strspn(str, delims)
      e == token + strcspn(StringAt(buf, token), delims)
  IN  IF strspn(str, delims) = n
        THEN [token |-> NULLP, buf |-> buf, save |-> s + n]
        ELSE [token |-> token, buf |-> [buf EXCEPT ![e] = 0],
              save |-> IF buf[e] # 0 THEN e + 1 ELSE e]

\* strlcpy (dst, src, size) on a buffer, with the length it returns.
strlcpy(dst, src, size) ==
  LET n == IF Len(src) < size - 1 THEN Len(src) ELSE size - 1
  IN  [ret |-> Len(src),
       buf |-> IF size = 0 THEN dst
               ELSE [i \in DOMAIN dst |-> IF i <= n THEN src[i]
                                          ELSE IF i = n + 1 THEN 0 ELSE dst[i]]]

strlcat(dst, src, size) ==
  LET len == strlen(dst, 1)
      room == size - len - 1
      n == IF Len(src) < room THEN Len(src) ELSE room
  IN  [ret |-> Len(src) + len,
       buf |-> IF ~(size > 0 /\ len < size) THEN dst
               ELSE [i \in DOMAIN dst |->
                       IF i <= len THEN dst[i]
                       ELSE IF i <= len + n THEN src[i - len]
                       ELSE IF i = len + n + 1 THEN 0 ELSE dst[i]]]

-----------------------------------------------------------------------------
\* Tokens by repeated calls, each with the delimiters of its turn; the buffer
\* must never be read past its null byte.
RECURSIVE Tokens(_, _, _, _)
Tokens(buf, s, ds, n) ==
  IF s > Len(buf) THEN <<"past the end">>
  ELSE LET r == strtok_r(buf, s, ds[1 + (n % Len(ds))])
       IN  IF r.token = NULLP THEN <<>>
           ELSE <<StringAt(r.buf, r.token)>> \o Tokens(r.buf, r.save, ds, n + 1)

\* The same by splitting the string: drop leading delimiters, take a word, and
\* drop the one delimiter that ends it.
RECURSIVE Words(_, _, _)
Words(str, ds, n) ==
  LET D == Range(ds[1 + (n % Len(ds))])
      A == {i \in DOMAIN str : str[i] \notin D}
      a == CHOOSE i \in A : \A j \in A : i <= j
      E == {i \in DOMAIN str : i > a /\ str[i] \in D} \cup {Len(str) + 1}
      e == CHOOSE i \in E : \A j \in E : i <= j
  IN  IF A = {} THEN <<>>
      ELSE <<SubSeq(str, a, e - 1)>> \o Words(SubSeq(str, e + 1, Len(str)), ds, n + 1)

\* strtok_r returns the words of a string in order, never an empty one and
\* never one from beyond the end, with other delimiters at every call; and
\* reports the end for ever after.
TokensOK(str, ds) == Tokens(Chars(str), 1, ds, 0) = Words(str, ds, 0)

\* A move of overlapping blocks gives the destination the bytes the source had
\* and leaves the rest; a bounded copy or concatenation ends in a null byte
\* inside its size, keeps the bytes beyond, and returns the full length.
CopiesOK(mem, dst, src, size) ==
  memmove(mem, dst, src, size) =
    [i \in DOMAIN mem |-> IF i \in dst..(dst + size - 1) THEN mem[src + (i - dst)]
                                                        ELSE mem[i]]
BoundedOK(old, src, size, room) ==
  LET dst == Chars(old) \o [i \in 1..(room - Len(old) - 1) |-> 9]
      Good(r, whole) ==
        /\ r.ret = Len(whole)
        /\ size > 0 => StringAt(r.buf, 1) = SubSeq(whole, 1, strnlen(whole, size - 1))
        /\ \A i \in DOMAIN dst : i > size => r.buf[i] = dst[i]
  IN  /\ Good(strlcpy(dst, src, size), src)
      /\ size > Len(old) => Good(strlcat(dst, src, size), old \o src)
      /\ size <= Len(old) => strlcat(dst, src, size).buf = dst

\* strstr finds the first occurrence and no other; the searches for one
\* character and for sets of them agree with each other and with the order
\* strcmp gives.
SearchOK(a, b) ==
  LET At(i) == i + Len(b) - 1 <= Len(a) /\ SubSeq(a, i, i + Len(b) - 1) = b
      i == strstr(a, b)
  IN  /\ IF i = NULLP THEN \A j \in 1..(Len(a) + 1) : ~At(j)
                      ELSE At(i) /\ \A j \in 1..(i - 1) : ~At(j)
      /\ strcspn(a, b) = (IF strpbrk(a, b) = NULLP THEN Len(a) ELSE strpbrk(a, b) - 1)
      /\ \A c \in Range(a) :
            strchr(a, c) <= strrchr(a, c) /\ memchr(a, c, Len(a)) = strchr(a, c)
      /\ strcmp(a, b) = -strcmp(b, a)
      /\ strcmp(a, b) = 0 <=> a = b
      /\ strspn(a, a) = Len(a)
      /\ LET n == strnlen(a, Len(b)) IN
         memcmp(a, b, n) # 0 => strcmp(a, b) = memcmp(a, b, n)
=============================================================================
