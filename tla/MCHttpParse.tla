---------------------------- MODULE MCHttpParse ----------------------------
(* Instances of HttpParse for model checking.                              *)
EXTENDS HttpParse

\* Bytes on and beyond the bounds of parse_status.
EdgeBytes == {-1, 0, 5, 10}

\* Bound: after the first header line, one status is as good as another.
OneStatus == line = <<>> \/ status = 500
=============================================================================
