------------------------------ MODULE Pipeline ------------------------------
(***************************************************************************)
(* The iohelper packages: a source.Source reads chunks through a chain of  *)
(* filters, pump.Step hands what comes out to a sink.Sink, which may have  *)
(* filters of its own, and pump.All repeats that until the end or an       *)
(* error.  ValidFileSum, CopyFile, HttpDownload and codec.Decrypt are      *)
(* calls of pump.All.  One call runs at a time; the process may crash.     *)
(*                                                                         *)
(* A byte is a pair: <<"raw", i>> in the input, and what a filter makes of *)
(* a byte tells what it was made from, so that two outputs are equal only  *)
(* when hash, encryption and encoding agree.                               *)
(***************************************************************************)
EXTENDS Naturals, Sequences, SequencesExt

CONSTANTS
  Chain,     \* the chains of source filters
  SinkChain, \* the chains of sink filters
  Good,      \* the file HttpDownload is asked for
  Inputs,    \* the inputs of a source, answers of the server among them
  Buffer,    \* size of the pump's buffer (8192)
  Block,     \* block size of the cipher
  MaxCalls

ASSUME ConstantsAssumption == Buffer \in Nat \ {0} /\ Block \in Nat \ {0}

VARIABLES
  file,      \* content of the destination file, NoFile when there is none
  call,      \* the running call: op is idle when there is none, phase is the
             \* pump it is at, err All's result or more while All runs
  rest,      \* what the reader has not delivered yet
  broken,    \* the reader fails from now on
  fs, snkfs, \* states of the filters of source and sink
  out,       \* what the writer has got
  total,     \* All's count
  chunks,    \* history: the sizes of the chunks read
  together,  \* history: the end came with data
  ret,       \* what the last call returned, until the next one
  calls

pump == <<rest, broken, fs, snkfs, out, total, chunks, together>>
vars == <<file, call, pump, ret, calls>>

NoFile == << <<"none", 0>> >>
Sum(data) == << <<"sum", data>> >>
Idle == [op |-> "idle", phase |-> "none", chain |-> <<>>, snkchain |-> <<>>, input |-> <<>>,
         expected |-> <<>>, err |-> "none"]
NoResult == [op |-> "none", err |-> "none", expected |-> <<>>]

Init ==
  /\ file \in {NoFile, Good} /\ call = Idle
  /\ rest = <<>> /\ broken = FALSE /\ fs = <<>> /\ snkfs = <<>> /\ out = <<>> /\ total = 0
  /\ chunks = <<>> /\ together = FALSE /\ ret = NoResult /\ calls = 0

-----------------------------------------------------------------------------
(* The filters.                                                            *)

Each(tag, data) == [i \in 1 .. Len(data) |-> <<tag, data[i]>>]
ToHex(data) == [i \in 1 .. 2 * Len(data) |-> <<IF i % 2 = 1 THEN "hi" ELSE "lo", data[(i + 1) \div 2]>>]

\* The padding of CBCCrypto.Process: none when the data fills its blocks.
Pad(data) ==
  LET pad == (Block - (Len(data) % Block)) % Block
  IN data \o [i \in 1 .. pad |-> <<"pad", pad>>]

\* A block of CBC depends on all the blocks before it, a byte of CFB on all
\* the bytes.
CBC(before, data) ==
  [i \in 1 .. Len(data) |->
     <<"cbc", SubSeq(before \o data, 1, Len(before) + ((i - 1) \div Block + 1) * Block)>>]
CFB(before, data) == [i \in 1 .. Len(data) |-> <<"cfb", SubSeq(before \o data, 1, Len(before) + i)>>]

\* Process of a filter with state st: its new state, output and error.  fly
\* and sum are Hash with and without onTheFly; inc and mute stand for filters
\* of the caller: one that works in place, and one that never ends.
Process(f, st, p, eof) ==
  LET err == IF eof THEN "EOF" ELSE "nil"
  IN CASE f = "fly" -> [st |-> st \o p, out |-> p, err |-> err]
       [] f = "sum" -> IF eof THEN [st |-> st, out |-> Sum(st), err |-> err]
                              ELSE [st |-> st \o p, out |-> <<>>, err |-> "nil"]
       [] f = "hex" -> [st |-> st, out |-> ToHex(p), err |-> err]
       [] f = "cbc" -> [st |-> st \o Pad(p), out |-> CBC(st, Pad(p)), err |-> err]
       [] f = "cfb" -> [st |-> st \o p, out |-> CFB(st, p), err |-> err]
       [] f = "inc" -> [st |-> st, out |-> Each("inc", p), err |-> err]
       [] f = "mute" -> [st |-> st, out |-> <<>>, err |-> "nil"]
       [] f = "refuse" -> [st |-> st, out |-> <<>>, err |-> "refused"]

InPlace == {"fly", "inc"}

\* Reference: what a chain of filters makes of the whole input.
Whole(chain, input) ==
  LET whole(data, f) ==
        CASE f = "fly" -> data
          [] f = "sum" -> Sum(data)
          [] f = "hex" -> ToHex(data)
          [] f = "cbc" -> CBC(<<>>, Pad(data))
          [] f = "cfb" -> CFB(<<>>, data)
          [] f = "inc" -> Each("inc", data)
          [] f \in {"mute", "refuse"} -> <<>>
  IN FoldLeft(whole, input, chain)

-----------------------------------------------------------------------------
(* Source.Read, Sink.Write and pump.Step.                                  *)

\* The loop of Source.Read over its filters: it ends early at an error and
\* at a filter that has consumed everything.
Filtered(chain, states, chunk, eof) ==
  LET through(acc, i) ==
        LET r == Process(chain[i], acc.fs[i], acc.data, eof)
            done == [acc EXCEPT !.fs[i] = r.st, !.data = r.out, !.err = r.err,
                                !.buffer = IF acc.same /\ chain[i] \in InPlace THEN r.out ELSE @,
                                !.same = @ /\ chain[i] \in InPlace]
        IN CASE acc.stop -> acc
             [] ~ acc.stop /\ r.err \notin {"nil", "EOF"} -> [done EXCEPT !.stop = TRUE]
             [] ~ acc.stop /\ r.out = <<>> /\ r.err = "nil" ->
                  [done EXCEPT !.stop = TRUE, !.err = IF eof THEN "not EOF" ELSE "nil"]
             [] OTHER -> done
  IN FoldLeft(through,
              [data |-> chunk, err |-> "nil", buffer |-> chunk, same |-> TRUE, stop |-> FALSE,
               fs |-> states],
              [i \in 1 .. Len(chain) |-> i])

\* Slip: Source.Read returns the reader's count.
ReadCount(chain, states, chunk, err) ==
  LET r == Filtered(chain, states, chunk, err = "EOF")
  IN [n |-> Len(chunk), buffer |-> r.buffer, output |-> r.data, fs |-> r.fs,
      err |-> IF r.same \/ r.data = <<>> THEN r.err
              ELSE IF err = "EOF" THEN "EOFDataModifiedNotInPlace" ELSE "DataModifiedNotInPlace"]

\* Source.Read of a chunk: n, err, the buffer and DataFilterOutput.  An error
\* of the reader is dropped when there is a filter.
Read(chain, states, chunk, err) ==
  LET r == Filtered(chain, states, chunk, err = "EOF")
      inBuffer == r.stop \/ r.same \/ r.data = <<>>
  IN [n |-> Len(r.data), buffer |-> r.buffer, fs |-> r.fs,
      output |-> IF inBuffer THEN <<>> ELSE r.data,
      err |-> CASE chain = <<>> -> err
                [] chain # <<>> /\ inBuffer -> r.err
                [] OTHER -> IF err = "EOF" THEN "EOFDataModifiedNotInPlace"
                                          ELSE "DataModifiedNotInPlace"]

\* Sink.Write: the data after the sink's filters, and their states; a filter
\* that fails ends it.
Written(chain, states, p) ==
  FoldLeft(LAMBDA acc, i :
             LET r == Process(chain[i], acc.fs[i], acc.data, FALSE)
             IN IF acc.err # "nil" THEN acc
                ELSE [data |-> r.out, fs |-> [acc.fs EXCEPT ![i] = r.st], err |-> r.err],
           [data |-> p, fs |-> states, err |-> "nil"], [i \in 1 .. Len(chain) |-> i])

\* Sink.Write's count when the writer took m bytes: filters that made other
\* data count as if everything was written.
WriteCount(chain, n, m) == IF ToSet(chain) \subseteq InPlace THEN m ELSE n

\* Slip: pump.Step always writes from its buffer.
ToWriteBuffer(r) == SubSeq(r.buffer, 1, IF r.n < Len(r.buffer) THEN r.n ELSE Len(r.buffer))

ToWrite(r) ==
  IF r.err \in {"DataModifiedNotInPlace", "EOFDataModifiedNotInPlace"}
    THEN r.output ELSE SubSeq(r.buffer, 1, r.n)

\* Slip: Step's end is not told from its other results.
AllErrNoEnd(err) ==
  CASE err \in {"nil", "EOF", "DataModifiedNotInPlace"} -> "more"
    [] err = "EOFDataModifiedNotInPlace" -> "nil"
    [] OTHER -> err

\* All's error for an error of Read; more: All goes on.
AllErr(err) ==
  CASE err \in {"nil", "DataModifiedNotInPlace"} -> "more"
    [] err \in {"EOF", "EOFDataModifiedNotInPlace"} -> "nil"
    [] OTHER -> err

\* What the reader delivers: a chunk of the rest, or the end or an error,
\* which it repeats, alone or, unless it is a file, with a chunk.
ToFile == call.op = "CopyFile" \/ call.phase = "fetch"
IsFile == call.op = "CopyFile" \/ call.phase = "check"
Delivers(chunk, err) ==
  IF broken THEN err = "broken" /\ (chunk = <<>> \/ ~ IsFile)
  ELSE IF chunk = <<>> THEN rest = <<>> /\ err = "EOF"
  ELSE err = "nil" \/ (err = "EOF" /\ chunk = rest /\ ~ IsFile)

ReaderBreaks ==
  /\ call.err = "more" /\ ~ broken
  /\ broken' = TRUE
  /\ UNCHANGED <<file, call, rest, fs, snkfs, out, total, chunks, together, ret, calls>>

Writes(r) == r.n > 0 /\ AllErr(r.err) \in {"more", "nil"}

\* One round of pump.All: Read, and Write unless there is nothing to write or
\* Read has failed.  The writer may fail after a part of the data.
Step ==
  \E k \in 0 .. (IF Len(rest) < Buffer THEN Len(rest) ELSE Buffer), err \in {"nil", "EOF", "broken"} :
    /\ call.err = "more" /\ Delivers(SubSeq(rest, 1, k), err)
    /\ rest' = SubSeq(rest, k + 1, Len(rest))
    /\ chunks' = IF k > 0 THEN Append(chunks, k) ELSE chunks
    /\ together' = (together \/ (k > 0 /\ err = "EOF"))
    /\ \E r \in {Read(call.chain, fs, SubSeq(rest, 1, k), err)} :
         /\ fs' = r.fs
         /\ \/ ~ Writes(r) /\ total' = total + r.n /\ call' = [call EXCEPT !.err = AllErr(r.err)]
               /\ UNCHANGED <<snkfs, out>>
            \/ Writes(r) /\ \E w \in {Written(call.snkchain, snkfs, ToWrite(r))} :
                 /\ snkfs' = w.fs
                 /\ \/ /\ w.err # "nil" /\ total' = total + Len(w.data) /\ UNCHANGED out
                       /\ call' = [call EXCEPT !.err = w.err]
                    \/ /\ w.err = "nil" /\ out' = out \o w.data /\ total' = total + r.n
                       /\ call' = [call EXCEPT !.err = AllErr(r.err)]
                    \/ \E m \in 0 .. Len(w.data) - 1 :
                         /\ w.err = "nil" /\ out' = out \o SubSeq(w.data, 1, m)
                         /\ total' = total + WriteCount(call.snkchain, r.n, m)
                         /\ call' = [call EXCEPT !.err = "write failed"]
    /\ file' = IF ToFile THEN out' ELSE file
    /\ UNCHANGED <<broken, ret, calls>>

-----------------------------------------------------------------------------
(* The calls.                                                              *)

Fresh(op, phase, chain, snkchain, input, expected) ==
  [op |-> op, phase |-> phase, chain |-> chain, snkchain |-> snkchain, input |-> input,
   expected |-> expected, err |-> "more"]

\* source.New..., sink.New..., Chain and the start of pump.All
StartPump(c) ==
  /\ call' = c /\ rest' = c.input /\ broken' = FALSE
  /\ fs' = [i \in 1 .. Len(c.chain) |-> <<>>] /\ snkfs' = [i \in 1 .. Len(c.snkchain) |-> <<>>]
  /\ out' = <<>> /\ total' = 0 /\ chunks' = <<>> /\ together' = FALSE

Called == call = Idle /\ calls < MaxCalls /\ calls' = calls + 1 /\ ret' = NoResult

\* The source, the sink and the buffer are gone with the call.
Return(err) ==
  ret' = [op |-> call.op, err |-> err, expected |-> call.expected] /\ StartPump(Idle)

\* pump.All into a buffer; codec.Decrypt is one with the chain <<"cbc">>.
All ==
  /\ Called
  /\ \E c \in Chain, s \in SinkChain, input \in Inputs :
       StartPump(Fresh("All", "pump", c, s, input, <<>>))
  /\ UNCHANGED file

CopyFile ==
  /\ Called
  /\ \E input \in Inputs : StartPump(Fresh("CopyFile", "pump", <<>>, <<>>, input, <<>>))
  /\ file' = <<>>

\* The end of All, for the calls that end with it.
AllDone ==
  /\ call.phase = "pump" /\ call.err # "more"
  /\ Return(call.err)
  /\ UNCHANGED <<file, calls>>

\* ValidFileSum, by itself or as the first step of HttpDownload.
ValidFileSum ==
  /\ Called
  /\ \E op \in {"ValidFileSum", "HttpDownload"}, expected \in {Sum(Good), <<>>} :
       LET c == Fresh(op, "check", <<"sum">>, <<>>, file, expected)
       IN IF file = NoFile
            THEN /\ call' = [c EXCEPT !.err = "no file", !.input = <<>>]
                 /\ UNCHANGED pump
            ELSE StartPump(c)
  /\ UNCHANGED file

\* The comparison of ValidFileSum.  HttpDownload is done when the file is
\* there and goes on to the request when it is not.
SumCompared ==
  /\ call.phase = "check" /\ call.err # "more"
  /\ \/ call.err = "nil" /\ out = call.expected /\ Return("nil")
     \/ /\ ~ (call.err = "nil" /\ out = call.expected)
        /\ \/ call.op = "ValidFileSum" /\ Return(IF call.err = "nil" THEN "mismatch" ELSE call.err)
           \/ /\ call.op = "HttpDownload"
              /\ call' = [call EXCEPT !.phase = "get", !.err = "none"] /\ UNCHANGED <<ret, pump>>
  /\ UNCHANGED <<file, calls>>

\* http.Get, and the file created for the answer
Get ==
  /\ call.phase = "get"
  /\ \/ Return("get failed") /\ UNCHANGED file
     \/ \E body \in Inputs :
          /\ StartPump(Fresh("HttpDownload", "fetch", <<"fly">>, <<>>, body, call.expected))
          /\ file' = <<>> /\ UNCHANGED ret
  /\ UNCHANGED calls

\* Slip: the sum is not compared when the file was written.
FetchedUnchecked ==
  /\ call.phase = "fetch" /\ call.err # "more"
  /\ Return(call.err)
  /\ UNCHANGED <<file, calls>>

\* The end of HttpDownload.
Fetched ==
  /\ call.phase = "fetch" /\ call.err # "more"
  /\ Return(IF call.err = "nil" /\ call.expected # <<>> /\ Sum(fs[1]) # call.expected
              THEN "invalid sum" ELSE call.err)
  /\ UNCHANGED <<file, calls>>

\* The process ends; the file stays as it is.
Crash ==
  /\ call # Idle
  /\ StartPump(Idle) /\ ret' = NoResult
  /\ UNCHANGED <<file, calls>>

CallStep == Step \/ AllDone \/ SumCompared \/ Get \/ Fetched

Next == All \/ CopyFile \/ ValidFileSum \/ CallStep \/ ReaderBreaks \/ Crash

\* A running call goes on; nobody has to call.
Spec == Init /\ [][Next]_vars /\ WF_vars(CallStep)

-----------------------------------------------------------------------------
\* The variables have their types; All counts what the writer got, and a
\* chunk never exceeds the buffer.
TypeOK ==
  /\ call.op \in {"idle", "All", "CopyFile", "ValidFileSum", "HttpDownload"}
  /\ call.phase \in {"none", "pump", "check", "get", "fetch"}
  /\ broken \in BOOLEAN /\ together \in BOOLEAN /\ calls \in 0 .. MaxCalls
  /\ Len(fs) = Len(call.chain) \/ call = Idle \/ call.phase \in {"check", "get"}
  /\ \A i \in 1 .. Len(chunks) : chunks[i] \in 1 .. Buffer
  /\ call.err = "more" /\ call.snkchain = <<>> => total = Len(out)

\* How the input was cut suits the filters: CBCCrypto wants every chunk but
\* the last to fill its blocks, Hash without onTheFly wants the end alone.
Suits(chain) ==
  /\ "cbc" \in ToSet(chain) => \A i \in 1 .. Len(chunks) - 1 : chunks[i] % Block = 0
  /\ "sum" \in ToSet(chain) => ~ together

\* When pump.All returns nil the writer has got what the filters make of the
\* whole input, however it was cut into chunks, and All has counted the bytes
\* the source's filters made; so nothing is lost, repeated or reordered.
PumpedExactly ==
  call.err = "nil" /\ Suits(call.chain)
    => /\ out = Whole(call.chain \o call.snkchain, call.input)
       /\ total = Len(Whole(call.chain, call.input))
       /\ ToFile => file = call.input

\* HttpDownload with a sum, and ValidFileSum, succeed only when the file is
\* the one the sum is of, whatever crashed while it was written before; and
\* ValidFileSum finds no fault with a good file.
DownloadIsVerified ==
  call = Idle /\ ret.op \in {"ValidFileSum", "HttpDownload"} =>
    /\ ret.err = "nil" /\ ret.expected # <<>> => file = Good
    /\ ret.err = "mismatch" /\ ret.expected # <<>> => file # Good

\* A call returns, unless the reader fails behind a filter: the error is
\* dropped and All reads for ever.
CallsReturn == (call # Idle) ~> (call = Idle \/ (broken /\ call.chain # <<>>))

\* "the filter consume all input data, and output the hashsum when eof of
\* Process is True" (filter.go): a hash of a source is that of its input.
\* The code does not keep this when the end comes with data.
HashSeesAll ==
  call.err = "nil" /\ call.chain = <<"sum">>
    => out = Whole(call.chain \o call.snkchain, call.input)
=============================================================================
