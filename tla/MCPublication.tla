---------------------------- MODULE MCPublication ----------------------------
(* Small instances of Publication for TLC. *)
EXTENDS Publication, TLC

CONSTANTS web, pdf, A, B, webA, pdfA, webB, p, q

(* Each report rendered for the web, the first one for PDF, too. *)
RenderReports == (webA :> A) @@ (pdfA :> A) @@ (webB :> B)
RenderChannels == (webA :> web) @@ (pdfA :> pdf) @@ (webB :> web)
WebReports == (webA :> A) @@ (webB :> B)
WebChannels == (webA :> web) @@ (webB :> web)

(* Both reports show the same to the audience of the variant. *)
SamePrints == (A :> p) @@ (B :> p)

Symmetry == Permutations(Clients)
=============================================================================
