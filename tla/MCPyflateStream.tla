-------------------------- MODULE MCPyflateStream ---------------------------
(* A stream, at its three levels: the magic selects one of the two formats,  *)
(* whose headers and symbols PyflateBzip2 and PyflateGzip read, and below    *)
(* both the readers hand out bits.  The levels share no state, so a          *)
(* behaviour follows one of them.                                            *)
(* The instance: streams of at most twelve bytes, three groups, three        *)
(* selectors, two DEFLATE blocks of three symbols.                           *)
EXTENDS PyflateBits, PyflateBzip2, PyflateGzip

VARIABLE format             \* "bits", "unknown", "bzip2", "gzip" or "refused"

streamVars == <<format, readerVars, bzip2Vars, gzipVars>>

\* decompress(), bench_pyflake(): the first two bytes.
Magic(m) ==
  /\ format = "unknown"
  /\ format' = IF m \in {"bzip2", "gzip"} THEN m ELSE "refused"
  /\ UNCHANGED <<readerVars, bzip2Vars, gzipVars>>

StreamInit ==
  /\ format \in {"bits", "unknown"}
  /\ ReadersInit /\ Bzip2Init /\ GzipInit
  /\ format = "unknown" => n = 1

StreamNext ==
  \/ \E m \in {"bzip2", "gzip", "other"} : Magic(m)
  \/ format = "bits" /\ ReadersNext /\ UNCHANGED <<format, bzip2Vars, gzipVars>>
  \/ format = "bzip2" /\ Bzip2Next /\ UNCHANGED <<format, readerVars, gzipVars>>
  \/ format = "gzip" /\ GzipNext /\ UNCHANGED <<format, readerVars, bzip2Vars>>

StreamSpec == StreamInit /\ [][StreamNext]_streamVars

-----------------------------------------------------------------------------
\* Code-length symbols: a length, a run of k zeros, the last length k times.
CodeLength(l) == [r |-> l, extra |-> 0]
ZeroRun(k) == [r |-> 18, extra |-> k - 11]
Repeat(k) == [r |-> 16, extra |-> k - 3]

\* Two literals, the end of block and one distance; four literals and a repeat
\* that runs from the literal lengths into the distances and past their end.
MCHeaders ==
  { <<CodeLength(8), CodeLength(9), ZeroRun(138), ZeroRun(116), CodeLength(8), CodeLength(5)>>,
    <<CodeLength(8), Repeat(3), ZeroRun(138), ZeroRun(114), CodeLength(8), Repeat(6)>> }
=============================================================================
