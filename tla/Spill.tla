------------------------------- MODULE Spill --------------------------------
(***************************************************************************)
(* MmapExperts, ExpertTracker and SpeculativePrefetch of crates/spill: the *)
(* experts a router selects are recorded per layer, and the page cache is  *)
(* advised to read those the tracker predicts for the layers ahead.        *)
(* Every call that advises may fail in the middle, as madvise may.         *)
(***************************************************************************)
EXTENDS ExpertIndex

CONSTANTS
  FileSets,    \* models: sequences of shards
  Selections,  \* what a router may select: sequences of different experts
  Window,      \* tokens remembered per layer, 32 in the code
  Depth,       \* prefetch_depth
  HotCount,    \* hot experts added to a prediction, 4 in the code
  PinAfter,    \* tokens before a layer is pinned, 10 in the code
  PinPercent,  \* pin_threshold_pct
  MaxTokens    \* bound on the number of selections recorded

ASSUME SpillAssumption ==
  /\ Window \in Nat \ {0} /\ Depth \in Nat /\ HotCount \in Nat
  /\ Selections \subseteq Seq(0 .. NumExperts - 1)
  /\ \A s \in Selections : IsInjective(s)
  /\ \A shards \in FileSets : Wellformed(shards)

VARIABLES
  files,    \* the files of the model
  state,    \* "closed", "open", or "failed" if open returned an error
  index,    \* layer -> expert -> ranges
  hist,     \* layer with experts -> LayerHistory
  pinned,   \* layer -> set of experts; layers without any are left out
  advised,  \* ranges the page cache was advised to read
  result,   \* what the last call returned: "ok" or "err"
  used      \* layer -> all selections recorded, the newest last (history)

vars == <<files, state, index, hist, pinned, advised, result, used>>

MoeLayers == {layer \in Layers : index[layer] # <<>>}

NewHistory ==
  [recent |-> [k \in 0 .. Window - 1 |-> <<>>], pos |-> 0,
   freq |-> [e \in 0 .. NumExperts - 1 |-> 0], total |-> 0]

Init ==
  /\ files \in FileSets
  /\ state = "closed"
  /\ index = [layer \in Layers |-> <<>>]
  /\ hist = <<>> /\ pinned = <<>> /\ used = <<>>
  /\ advised = {} /\ result = "ok"

-----------------------------------------------------------------------------
(* LayerHistory.                                                           *)

NextPos(h) == (h.pos + 1) % Window

Recorded(h, experts) ==
  [recent |-> [h.recent EXCEPT ![h.pos] = experts],
   pos |-> NextPos(h),
   freq |-> [e \in DOMAIN h.freq |-> h.freq[e] + (IF e \in ToSet(experts) THEN 1 ELSE 0)],
   total |-> h.total + 1]

\* Mutant: the entry at the position, which is the oldest.
PredictOldest(h) == h.recent[h.pos]

PredictReuse(h) == h.recent[(h.pos + Window - 1) % Window]

\* The first most frequent experts; the sort is stable.
HotExperts(h) ==
  LET hotter(a, b) == h.freq[a] > h.freq[b] \/ (h.freq[a] = h.freq[b] /\ a < b)
      sorted == SetToSortSeq(DOMAIN h.freq, hotter)
  IN  [k \in 1 .. (IF HotCount < NumExperts THEN HotCount ELSE NumExperts) |-> sorted[k]]

\* The hot experts that reuse does not predict, in their order.
HotOthers(hot, reuse) ==
  LET places == {k \in DOMAIN hot : hot[k] \notin ToSet(reuse)}
      place(i) == CHOOSE k \in places : Cardinality({m \in places : m < k}) = i - 1
  IN  [i \in 1 .. Cardinality(places) |-> hot[place(i)]]

Predict(h) == PredictReuse(h) \o HotOthers(HotExperts(h), PredictReuse(h))

-----------------------------------------------------------------------------
(* Advice.                                                                 *)

\* The ranges prefetch_experts advises; an index without the layer or the
\* expert is passed over.
Ranges(layer, experts) ==
  IF layer \notin Layers THEN <<>>
  ELSE FlattenSeq([k \in DOMAIN experts |->
         IF experts[k] + 1 \in DOMAIN index[layer] THEN index[layer][experts[k] + 1]
         ELSE <<>>])

\* The ranges are advised in their order, up to the first failure.
Advise(ranges) ==
  \E n \in 0 .. Len(ranges) :
    /\ advised' = advised \cup ToSet(SubSeq(ranges, 1, n))
    /\ result' = IF n = Len(ranges) THEN "ok" ELSE "err"

\* The ranges of several layers, in the order of a hash map: any.
AdviseLayers(rangesOf) ==
  \E order \in SetToSeqs(DOMAIN rangesOf) :
    Advise(FlattenSeq([k \in DOMAIN order |-> rangesOf[order[k]]]))

Open ==
  /\ state = "closed"
  /\ LET ok == OpenSucceeds(files)
     IN  /\ state' = IF ok THEN "open" ELSE "failed"
         /\ result' = IF ok THEN "ok" ELSE "err"
         /\ index' = IF ok THEN BuildIndex(files) ELSE index
         /\ hist' = IF ok THEN [layer \in {l \in Layers : BuildIndex(files)[l] # <<>>} |-> NewHistory]
                    ELSE hist
         /\ used' = [layer \in DOMAIN hist' |-> <<>>]
  /\ UNCHANGED <<files, pinned, advised>>

\* The layers ahead are 4, 8, ... further on.
Ahead(layer) ==
  FlattenSeq([d \in 1 .. Depth |->
    IF layer + 4 * d \in DOMAIN hist
    THEN Ranges(layer + 4 * d, Predict(hist[layer + 4 * d])) ELSE <<>>])

Recordings == FoldFunction(LAMBDA s, n : n + Len(s), 0, used)

OnExpertSelected(layer, experts) ==
  /\ state = "open" /\ Recordings < MaxTokens
  /\ hist' = [hist EXCEPT ![layer] = Recorded(@, experts)]
  /\ used' = [used EXCEPT ![layer] = Append(@, experts)]
  /\ Advise(Ahead(layer))
  /\ UNCHANGED <<files, state, index, pinned>>

PrefetchForStep ==
  /\ state = "open"
  /\ AdviseLayers([layer \in DOMAIN hist |-> Ranges(layer, Predict(hist[layer]))])
  /\ UNCHANGED <<files, state, index, hist, pinned, used>>

HotSet(h) ==
  IF h.total < PinAfter THEN {}
  ELSE {e \in DOMAIN h.freq : h.freq[e] > (h.total * PinPercent) \div 100}

NewPins == [layer \in {l \in DOMAIN hist : HotSet(hist[l]) # {}} |-> HotSet(hist[layer])]

\* The map is cleared first: a layer without hot experts has no pins left.
UpdatePins ==
  /\ state = "open"
  /\ pinned' = NewPins
  /\ AdviseLayers([layer \in DOMAIN pinned' |->
                     Ranges(layer, SetToSortSeq(pinned'[layer], <))])
  /\ UNCHANGED <<files, state, index, hist, used>>

\* release_experts and release_layer: the pages may be dropped.
ReleaseExperts(layer, experts) ==
  /\ state = "open"
  /\ \E n \in 0 .. Len(Ranges(layer, experts)) :
       /\ advised' = advised \ ToSet(SubSeq(Ranges(layer, experts), 1, n))
       /\ result' = IF n = Len(Ranges(layer, experts)) THEN "ok" ELSE "err"
  /\ UNCHANGED <<files, state, index, hist, pinned, used>>

AllExperts == [e \in 1 .. NumExperts |-> e - 1]

\* bulk_prefetch_layer, for a prefill.
BulkPrefetch(layer) ==
  /\ state = "open"
  /\ Advise(Ranges(layer, AllExperts))
  /\ UNCHANGED <<files, state, index, hist, pinned, used>>

Next ==
  \/ Open
  \/ \E layer \in DOMAIN hist, experts \in Selections : OnExpertSelected(layer, experts)
  \/ PrefetchForStep
  \/ UpdatePins
  \/ \E layer \in MoeLayers : BulkPrefetch(layer) \/ ReleaseExperts(layer, AllExperts)

Spec == Init /\ [][Next]_vars

-----------------------------------------------------------------------------
(* Properties.                                                             *)

Bytes(r) == {<<r.file, b>> : b \in r.offset .. r.offset + r.len - 1}

\* The bytes of an expert in a layer's tensors: of each, the piece of its
\* number, all experts having the same share of the data.
Piece(t) == t.size \div NumExperts

ExpertBytes(layer, e) ==
  UNION {UNION {{<<s, files[s].tensors[n].at + e * Piece(files[s].tensors[n]) + b>> :
                   b \in 0 .. Piece(files[s].tensors[n]) - 1} :
                n \in {m \in DOMAIN files[s].tensors : m[2] = layer}} :
         s \in DOMAIN files}

\* The tensors of a layer are stacked over the experts the model says it has,
\* of element types the index knows.
Stacked(layer) ==
  \A s \in DOMAIN files : \A n \in DOMAIN files[s].tensors :
    n[2] = layer =>
      /\ files[s].tensors[n].shape[1] = NumExperts
      /\ files[s].tensors[n].dtype \in {"F32", "F16", "BF16", "U8", "U32", "I32"}

\* The ranges computed from type and shape are the expert's share of the data
\* of each of the layer's tensors, in the files they are in, however the layer
\* is spread over the files and whatever else the types of its tensors are.
SlicesTile ==
  \A layer \in MoeLayers : Stacked(layer) =>
    \A e \in 1 .. NumExperts :
      UNION {Bytes(index[layer][e][p]) : p \in DOMAIN Parts} = ExpertBytes(layer, e - 1)

\* A selection recorded without an error leaves what the layers ahead used
\* last advised, although it may have been released since.
LookaheadCoversReuse ==
  [][\A layer \in DOMAIN hist : \A d \in 1 .. Depth :
       LET ahead == layer + 4 * d
       IN  (/\ used'[layer] # used[layer] /\ result' = "ok"
            /\ ahead \in DOMAIN hist /\ used[ahead] # <<>>)
             => ToSet(Ranges(ahead, Last(used[ahead]))) \subseteq advised']_vars

\* A model that opens has an index of every layer with experts.  It has
\* not: the layout is only accepted on the evidence of layer 0.
EveryLayerIndexed ==
  state = "open" =>
    \A s \in DOMAIN files : \A name \in DOMAIN files[s].tensors :
      name[2] \in MoeLayers
=============================================================================
