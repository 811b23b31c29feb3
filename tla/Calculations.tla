---------------------------- MODULE Calculations ----------------------------
(***************************************************************************)
(* The parts that compute and do not interact: a question is put to the    *)
(* Modbus client, to espectre or to the SD card's file server, and it      *)
(* answers.                                                                *)
(***************************************************************************)
EXTENDS ModbusCalculations, BandSelection, CsiFrames, SdFileServer

CONSTANTS
  Recordings,     \* what a calibration works on: packets, hint, setting and std::sort's ties
  Frames,         \* what the radio delivers: an address, a layout, the width it reports
  PeerFilters,    \* the pair filters that frames pass
  Servers,        \* how the file server is set up
  Cards,          \* what the SD card holds
  Chunks          \* the parts of an upload

\* A radio that delivers double width says so, and not of two training fields; the extra
\* senders of a pair filter are those that are no strangers.
ASSUME FramesAssumption ==
  /\ \A f \in Frames : /\ f.layout \in Layouts /\ f.wide \in BOOLEAN
                        /\ (f.layout = "wide" => f.wide) /\ (f.wide => f.layout # "double")
  /\ \A p \in PeerFilters : p.set \in BOOLEAN /\ (p.set =>
       /\ p.peer = "peer" /\ p.broadcast /\ p.accessPoint /\ p.bssid = "ap"
       /\ \A k \in DOMAIN p.extra : p.extra[k] # "stranger"
       /\ \A f \in Frames : f.mac \in {"peer", "broadcast", "ap", "stranger"} \/
            \E k \in DOMAIN p.extra : p.extra[k] = f.mac)

\* The names, below its root, of what the file server shows.
Shown(s, card) ==
  {RestAfter(n, Len(SplitPath(s.root))) : n \in {n \in DOMAIN card : StartsWith(n, SplitPath(s.root))}}

Questions ==
  ModbusQuestions
  \cup [topic : {"band"}, recording : Recordings]
  \cup [topic : {"frame"}, frame : Frames, filter : PeerFilters, mode : {"gain", "calibration", "motion"}]
  \cup UNION {[topic : {"files"}, server : {s}, card : {c}, names : Shown(s, c),
                method : {"get", "delete", "upload"}] : s \in Servers, c \in Cards}

Asked == question \in Questions /\ answer = NoAnswer

AnswerBand ==
  /\ question.topic = "band"
  /\ Answer([topic |-> "band", result |-> RunCalibration(question.recording)])

AnswerFrame ==
  /\ question.topic = "frame"
  /\ Answer([topic |-> "frame",
             result |-> ProcessFrame(question.frame, question.filter, question.mode)])

\* Somebody opens the server's page and follows the links of one index after the other.
Followed(s, card, names) ==
  LET Row(url, name) ==
        LET page == Handle(s, card, [method |-> "get", url |-> url])
            rows == IF page.code = 200 /\ "rows" \in DOMAIN page THEN page.rows ELSE {}
        IN  {r.uri : r \in {r \in rows : r.name = name}}
      link[k \in 0..Len(names)] ==
        IF k = 0 THEN {BuildPrefix(s)} ELSE UNION {Row(url, names[k]) : url \in link[k - 1]}
  IN  link[Len(names)]

AnswerFiles ==
  /\ question.topic = "files"
  /\ \E url \in Followed(question.server, question.card, question.names) :
       Answer([topic |-> "files",
               response |-> Handle(question.server, question.card,
                 [method |-> question.method, url |-> url, name |-> "new", chunks |-> Chunks])])

Answering == ModbusAnswering \/ AnswerBand \/ AnswerFrame \/ AnswerFiles

Calculating == Asked /\ [][Answering]_exchange

---------------------------------------------------------------------------
(* What the answers should be, told from the question alone.               *)

\* What a band's baseline is by definition: the filtered turbulence of each packet, from
\* the last values alone, and the variance of every window of it.
Filtered(q, band) ==
  LET raw == [n \in DOMAIN q.packets |-> Turbulence(q.packets[n], band, q.setting.cv)]
      w   == q.setting.hampel
  IN  [n \in DOMAIN raw |-> IF w = 0 THEN 2 * raw[n]
                            ELSE HampelOf(SubSeq(raw, IF n < w THEN 1 ELSE n - w + 1, n), raw[n])]
BaselineOf(q, band) ==
  LET values == Filtered(q, band)
  IN  [n \in 1..(Len(values) - MvsWindow + 1) |-> ScaledVariance(SubSeq(values, n, n + MvsWindow - 1))]
RateOf(q, band) == FalsePositives(BaselineOf(q, band))
AcceptableBand(q, band) ==
  100 * RateOf(q, band) <= AcceptablePercent * Len(BaselineOf(q, band))

\* The usable subcarriers of a window that are not among its weakest, and the best of them.
Strong(q, start) ==
  LET sum(sc) == Total([k \in 1..WindowSize |-> q.packets[start + k - 1][sc]])
      usable  == {sc \in 0..(NumSubcarriers - 1) : sum(sc) > 0 /\ Usable(sc, sum(sc))}
      list    == SetToSeq(usable)
  IN  {sc \in usable : 100 * sum(sc) >= Percentile([k \in DOMAIN list |-> sum(list[k])], GatePercentile)}
BestBy(q, start, criterion) ==
  LET score == [sc \in Strong(q, start) |->
                  ScoresOf([k \in 1..WindowSize |-> q.packets[start + k - 1][sc]])[criterion]]
      Better(a, b) == score[a] < score[b] \/ (score[a] = score[b] /\ Before(q.tie, a, b))
  IN  SetToSortSeq({sc \in DOMAIN score : Cardinality({b \in DOMAIN score : Better(b, sc)}) < BandSize}, <)
Bands(q) ==
  {band \in {BestBy(q, s, c) : s \in Range(FindCandidateWindows(q)), c \in Criteria} :
     Len(band) = BandSize}

\* The band of a calibration is the best subcarriers of a quiet window by one of the
\* three scores; it is acceptable if one of those is, otherwise none of them and not the
\* current band has fewer false positives; the current band is kept only for want of a
\* better one (nbvi_calibrator.cpp:199-338, 454-584).
BestBandIsChosen ==
  answer.topic = "band" /\ answer.result.ok =>
    LET q == question.recording
        band == answer.result.band
        rivals == Bands(q) \cup (IF Len(q.hint) = BandSize THEN {q.hint} ELSE {})
    IN  IF Bands(q) = {} THEN band = q.hint
        ELSE IF \E b \in Bands(q) : AcceptableBand(q, b) THEN band \in Bands(q) /\ AcceptableBand(q, band)
        ELSE band \in rivals /\ \A b \in rivals : RateOf(q, band) <= RateOf(q, b)

\* The moving variances handed on are those of the band handed on, over the packets that
\* could be read, although four candidates per window and the hint were replayed: all of
\* them when the calibration succeeds, and where it fails those of the chunks before the
\* first that is cut short (nbvi_calibrator.cpp:272-300, 332-344, 586-680).
Reached(q) ==
  IF q.readable >= Len(q.packets) THEN Len(q.packets) ELSE ChunkPackets * (q.readable \div ChunkPackets)
BaselineDescribesBand ==
  answer.topic = "band" =>
    LET q == question.recording
        r == answer.result
    IN  /\ r.ok => r.moving = BaselineOf(q, r.band)
        /\ r.moving # <<>> =>
             r.moving = BaselineOf([q EXCEPT !.packets = SubSeq(@, 1, Reached(q))], r.band)

\* Every tone that is measured or recorded sits where an HT20 frame has it, whichever
\* layout came over the air, and no frame of an accepted sender in a layout that is
\* known gets lost (csi_manager.cpp:171-305, calibration_file_buffer.cpp:85-94).
EveryToneInItsPlace ==
  answer.topic = "frame" =>
    LET f == question.frame
        r == answer.result
        tones == {Samples(f.layout)[i] : i \in DOMAIN Samples(f.layout)}
        InPlace(i) == LET t == Around(FullLength)[i]
                      IN  r.samples[i] = IF t \in tones THEN t ELSE Zero
    IN  /\ r.to \in {"detector", "recording"} =>
             \/ Len(r.samples) = FullLength /\ \A i \in 1..FullLength : InPlace(i)
             \/ r.to = "detector" /\ f.layout = "wide" /\ r.samples = Samples("wide")
        /\ f.layout \in {"full", "short", "double", "shortDouble"} =>
             (r.to = "none") = (question.filter.set /\ f.mac = "stranger")

\* What the card should hold afterwards, `at' being the place the request is about.
Expected(card, at, method, s) ==
  CASE method = "delete" /\ s.deletion /\ ~card[at].directory ->
         [n \in DOMAIN card \ {at} |-> card[n]]
    [] method = "upload" /\ s.upload /\ card[at].directory ->
         [n \in DOMAIN card \cup {Append(at, "new")} |->
            IF n = Append(at, "new") THEN File(Chunks) ELSE card[n]]
    [] OTHER -> card

\* The links of the index pages lead to the entries they name and back: to get, delete
\* and fill them touches nothing else (sd_file_server.cpp:98-124, 290-372).
LinksLeadBack ==
  question.topic = "files" =>
    LET s == question.server
        card == question.card
        at == SplitPath(s.root) \o question.names
        Page(url) == Handle(s, card, [method |-> "get", url |-> url])
        Below(k) == CHOOSE url \in Followed(s, card, SubSeq(question.names, 1, k)) : TRUE
        crumbs == answer.response.crumbs
        Content(r) == IF card[at].directory
          THEN /\ {row.name : row \in r.rows} = {Last(n) : n \in {n \in DOMAIN card : n # <<>> /\ Front(n) = at}}
               /\ \A k \in 0..Len(question.names) :
                    Page(crumbs[Len(crumbs) - k]).rows = Page(Below(Len(question.names) - k)).rows
          ELSE s.download => r.content = card[at].content
    IN  /\ Followed(s, card, question.names) # {}
        /\ answer.topic = "files" =>
             /\ answer.response.card = Expected(card, at, question.method, s)
             /\ question.method = "get" => Content(answer.response)
=============================================================================
