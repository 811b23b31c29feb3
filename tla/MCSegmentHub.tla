---------------------------- MODULE MCSegmentHub ----------------------------
(* A small instance of SegmentHub: three segments, requests and old          *)
(* preferences that reach one beyond the strip.                              *)
EXTENDS SegmentHub, TLC

TwoBoundaries == (0 :> 0) @@ (1 :> 1)
ActiveFirst == <<-1, 0, 1>>
AnyRequest == 0..NumLeds
OutOfRange == {-1, NumLeds + 1}
=============================================================================
