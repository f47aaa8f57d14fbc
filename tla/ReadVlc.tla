------------------------------ MODULE ReadVlc -------------------------------
(***************************************************************************)
(* read_vlc: peeks one bit after the other on a clone of the reader and    *)
(* stops at the first entry whose length and bits are those peeked.  The   *)
(* stream holds a codeword somebody wrote, or anything, and may end early. *)
(***************************************************************************)
EXTENDS CavlcTables

CONSTANTS Tables, Garbage

(* No codeword is there twice, empty or longer than 16 bits: the tables for
   which read_vlc does not give up at once.  One may start another.        *)
ASSUME TablesAssumption ==
  \A t \in Tables :
    /\ t # {}
    /\ \A e \in t : e # Garbage /\ e.len \in 1..16 /\ e.code \in 0..(2^e.len - 1)
    /\ \A e, f \in t : f.len = e.len /\ f.code = e.code => e = f

VARIABLES
  table,
  wrote,      (* the entry whose codeword starts the stream, or Garbage    *)
  avail,      (* the bits the stream has                                   *)
  acc, len,   (* what was peeked                                           *)
  vlc_status, (* reading, ok, invalid or truncated                         *)
  value,
  cursor      (* how far the caller's reader has moved                     *)

lookupVars == <<table, wrote, avail, acc, len, vlc_status, value, cursor>>

LookupInit ==
  /\ table \in Tables
  /\ wrote \in table \union {Garbage}
  /\ avail \in 0..(IF wrote = Garbage THEN MaxLen(table) ELSE wrote.len)
  /\ acc = 0 /\ len = 0
  /\ vlc_status = "reading" /\ value = 0 /\ cursor = 0

NextBits ==
  IF wrote = Garbage THEN {0, 1} ELSE {(wrote.code \div 2^(wrote.len - len - 1)) % 2}

(* Mutant: leading zeros are not told apart.                               *)
Bug_MatchesBits(e, n, bits) == e.code = bits

Matches(e, n, bits) == e.len = n /\ e.code = bits

LookupTruncated ==
  /\ vlc_status = "reading" /\ len < MaxLen(table)
  /\ len = avail
  /\ vlc_status' = "truncated"
  /\ UNCHANGED <<table, wrote, avail, acc, len, value, cursor>>

PeekBit ==
  /\ vlc_status = "reading" /\ len < MaxLen(table)
  /\ len < avail
  /\ \E b \in NextBits :
       LET bits == 2 * acc + b
           hits == {e \in table : Matches(e, len + 1, bits)}
       IN  /\ acc' = bits /\ len' = len + 1
           /\ IF hits = {} THEN UNCHANGED <<vlc_status, value, cursor>>
              ELSE \E e \in hits : vlc_status' = "ok" /\ value' = e.value /\ cursor' = e.len
  /\ UNCHANGED <<table, wrote, avail>>

NoMatch ==
  /\ vlc_status = "reading" /\ len = MaxLen(table)
  /\ vlc_status' = "invalid"
  /\ UNCHANGED <<table, wrote, avail, acc, len, value, cursor>>

LookupNext == LookupTruncated \/ PeekBit \/ NoMatch

LookupSpec == LookupInit /\ [][LookupNext]_lookupVars

-----------------------------------------------------------------------------
(* Peeking stays inside the stream and the longest codeword, and an error
   leaves the caller's reader where it was.                                *)
LookupTypeOK ==
  /\ vlc_status \in {"reading", "ok", "invalid", "truncated"}
  /\ len \in 0..MaxLen(table) /\ len <= avail
  /\ acc \in 0..(2^len - 1)
  /\ cursor = (IF vlc_status = "ok" THEN len ELSE 0)

(* The entry of t whose codeword is the shortest start of e: e itself, unless
   a shorter codeword shadows it.                                          *)
Shortest(t, e) ==
  CHOOSE f \in t : Begins(f, e) /\ \A g \in t : Begins(g, e) => f.len <= g.len

(* A codeword decodes to its own value and takes its own bits, if no other
   codeword starts it; one that is shadowed is never read, but always taken for
   the entry that shadows it, and the rest of its bits is left to the next read.
   Cut short, it is reported as truncated and never taken for another.  Of the
   tables of the decoder five codewords are lost so: see ShadowedCodewords. *)
CodewordsDecode ==
  wrote # Garbage /\ vlc_status # "reading" =>
    LET read == Shortest(table, wrote)
    IN  IF avail < read.len THEN vlc_status = "truncated"
        ELSE vlc_status = "ok" /\ value = read.value /\ cursor = read.len
=============================================================================
