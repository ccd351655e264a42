----------------------------- MODULE AudioGraph -----------------------------
(***************************************************************************)
(* The audio graph of the application: the connections that create.py      *)
(* asks for, and the static schedule, the FIFOs and the shared buffers     *)
(* that were generated from it in scheduler.cpp.  To save memory the 20    *)
(* FIFOs lie in 4 buffers, all of them at the start of their buffer.       *)
(***************************************************************************)
EXTENDS Integers, Sequences

(***************************************************************************)
(* Nodes, by what run() of their class reads and writes.                   *)
(***************************************************************************)

Node(name, kind, reads, writes) ==
  [name |-> name, kind |-> kind, reads |-> reads, writes |-> writes]

VStreamAudioSource(name, dst) == Node(name, "source", {}, {dst})
VStreamAudioSink(name, src) == Node(name, "sink", {src}, {})
NullSink(name, src) == Node(name, "compute", {src}, {})
Convert(name, src, dst) == Node(name, "compute", {src}, {dst})
DeinterleaveStereo(name, src, left, right) == Node(name, "compute", {src}, {left, right})
InterleaveStereo(name, left, right, dst) == Node(name, "compute", {left, right}, {dst})
\* Duplicate with a bug: nothing is copied.
Duplicate_NoCopy(name, src, dsts) == Node(name, "compute", {src}, {})
Duplicate(name, src, dsts) == Node(name, "compute", {src}, dsts)
Hanning(name, src, dst) == Node(name, "compute", {src}, {dst})
RealToComplex(name, src, dst) == Node(name, "compute", {src}, {dst})
CFFT(name, src, dst) == Node(name, "compute", {src}, {dst})
Spectrogram(name, src) == Node(name, "compute", {src}, {})
Mixer(name, src1, src2, dst1, dst2) == Node(name, "compute", {src1, src2}, {dst1, dst2})
SRC(name, src, dst) == Node(name, "compute", {src}, {dst})

\* nodes[n]: the node with the internal ID n, and its FIFOs.
nodes ==
  [n \in 0 .. 18 |->
     CASE n = 0  -> NullSink("audioSink", 13)
       [] n = 1  -> VStreamAudioSource("audioSource", 0)
       [] n = 2  -> DeinterleaveStereo("deinterleave", 1, 14, 17)
       [] n = 3  -> Duplicate("dup0", 14, {15})
       [] n = 4  -> Duplicate("dup1", 17, {})
       [] n = 5  -> CFFT("fftLeft", 4, 6)
       [] n = 6  -> CFFT("fftRight", 5, 7)
       [] n = 7  -> InterleaveStereo("interleave", 10, 11, 12)
       [] n = 8  -> Mixer("mixer", 16, 19, 8, 9)
       [] n = 9  -> Spectrogram("spectrogramLeft", 6)
       [] n = 10 -> Spectrogram("spectrogramRight", 7)
       [] n = 11 -> SRC("srcLeft", 8, 10)
       [] n = 12 -> SRC("srcRight", 9, 11)
       [] n = 13 -> RealToComplex("toComplexLeft", 2, 4)
       [] n = 14 -> RealToComplex("toComplexRight", 3, 5)
       [] n = 15 -> Convert("to_f32", 0, 1)
       [] n = 16 -> Convert("to_q15", 12, 13)
       [] n = 17 -> Hanning("winLeft", 15, 2)
       [] n = 18 -> Hanning("winRight", 18, 3)]

\* schedule with a bug: dup0 runs before the node whose output it copies.
schedule_Early == <<1, 15, 3, 2, 17, 13, 5, 9, 4, 18, 14, 6, 10, 8, 11, 12, 7, 16, 0>>

schedule == <<1, 15, 2, 3, 17, 13, 5, 9, 4, 18, 14, 6, 10, 8, 11, 12, 7, 16, 0>>

Generated == [i \in DOMAIN schedule |-> nodes[schedule[i]]]

(***************************************************************************)
(* FIFOs and buffers.                                                      *)
(***************************************************************************)

AllFifos == 0 .. 19
NbBuffers == 4

\* FifoBuffer with a bug: FIFO 4 in the buffer where the right channel and the
\* left one wait for the mixer.
FifoBuffer_Crowded ==
  [f \in AllFifos |->
     CASE f \in {1, 4, 10, 13, 15, 16}      -> 0
       [] f \in {0, 11, 17, 18, 19}         -> 1
       [] f \in {2, 3, 6, 7, 9, 12, 14}     -> 2
       [] f \in {5, 8}                      -> 3]

\* buf0 ... buf3: the buffer of each FIFO.
FifoBuffer ==
  [f \in AllFifos |->
     CASE f \in {1, 10, 13, 15, 16}         -> 0
       [] f \in {0, 11, 17, 18, 19}         -> 1
       [] f \in {2, 3, 6, 7, 9, 12, 14}     -> 2
       [] f \in {4, 5, 8}                   -> 3]

\* FIFOSIZE: samples.
FifoSize == [f \in AllFifos |-> IF f \in 10 .. 13 THEN 1536 ELSE 512]

\* sizeof the samples: sq15, sf32, cf32 or float.
SampleBytes ==
  [f \in AllFifos |->
     CASE f \in {0, 13}                 -> 4
       [] f \in {1, 4, 5, 6, 7, 12}     -> 8
       [] f \in {2, 3} \cup (8 .. 11) \cup (14 .. 19) -> 4]

\* BUFFERSIZE: bytes.
BufferSize == [b \in 0 .. NbBuffers - 1 |->
                 CASE b \in {0, 1} -> 6144 [] b = 2 -> 12288 [] b = 3 -> 4096]

Fitting == {f \in AllFifos : FifoSize[f] * SampleBytes[f] <= BufferSize[FifoBuffer[f]]}

\* A Duplicate node passes its input on: its outputs carry the signal of its
\* input, also those that are not copied because they share a buffer.
Signal == [f \in AllFifos |-> CASE f \in {15, 16} -> 14 [] f \in {18, 19} -> 17 [] OTHER -> f]

(***************************************************************************)
(* The connections of create.py, with the FIFO that the second node reads. *)
(***************************************************************************)

Connect(from, to, fifo) == [from |-> from, to |-> to, fifo |-> fifo]

the_graph ==
  {Connect("audioSource", "to_f32", 0),
   Connect("to_f32", "deinterleave", 1),
   Connect("deinterleave", "winLeft", 15),
   Connect("deinterleave", "winRight", 18),
   Connect("winLeft", "toComplexLeft", 2),
   Connect("winRight", "toComplexRight", 3),
   Connect("toComplexLeft", "fftLeft", 4),
   Connect("toComplexRight", "fftRight", 5),
   Connect("fftLeft", "spectrogramLeft", 6),
   Connect("fftRight", "spectrogramRight", 7),
   Connect("deinterleave", "mixer", 16),
   Connect("deinterleave", "mixer", 19),
   Connect("mixer", "srcLeft", 8),
   Connect("mixer", "srcRight", 9),
   Connect("srcLeft", "interleave", 10),
   Connect("srcRight", "interleave", 11),
   Connect("interleave", "to_q15", 12),
   Connect("to_q15", "audioSink", 13)}
=============================================================================
