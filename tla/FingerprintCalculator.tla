------------------------ MODULE FingerprintCalculator ------------------------
(***************************************************************************)
(* src/src/fingerprint_calculator.cpp: FingerprintCalculator adds each row *)
(* of features to a rolling integral image and, once the image has as many *)
(* rows as the widest filter, computes one item of the fingerprint for     *)
(* each further row.                                                       *)
(*                                                                         *)
(* An item is the sequence of its classifiers' filter values; quantizing   *)
(* each to two bits (quantizer.h, utils.h GrayCode) is left out.           *)
(***************************************************************************)
EXTENDS RollingIntegralImage, FilterUtils, Sequences, SequencesExt, FiniteSetsExt

CONSTANTS
    Classifiers,    \* m_classifiers: [type, y, height, width] records
    MaxTotal        \* bound: rows fed since the last Reset

VARIABLES
    image,          \* m_image
    fingerprint,    \* m_fingerprint
    rows,           \* history: the rows since the last Reset
    cleared         \* history: the items cleared since then

vars == <<image, fingerprint, rows, cleared>>

\* m_max_filter_width
MaxFilterWidth == Max({Classifiers[i].width : i \in DOMAIN Classifiers})

\* The assertions of the constructor; the image is created with 256 rows.
WidthAssumption == MaxFilterWidth \in 1 .. MAX_ROWS - 1

\* The filters of fingerprinter_configuration.cpp: one of the six types each,
\* within the columns of a row and no wider than those assertions allow.
ClassifiersAssumption ==
    \A i \in DOMAIN Classifiers :
        /\ Classifiers[i].type \in 0 .. 5
        /\ Classifiers[i].width \in 0 .. MAX_ROWS - 1
        /\ Classifiers[i].y \in Nat /\ Classifiers[i].height \in Nat
        /\ Classifiers[i].y + Classifiers[i].height <= COLUMNS

\* Classifier i at row x: the rectangles its filter reads.
Parts(i, x) ==
    Rectangles(Classifiers[i].type, x, Classifiers[i].y,
               Classifiers[i].width, Classifiers[i].height)

SumAreas(img, rects) ==
    MapThenSumSet(LAMBDA r : Area(img, r[1], r[2], r[3], r[4]), rects)

CalculateSubfingerprint(img, offset) ==
    [i \in DOMAIN Classifiers |->
        <<SumAreas(img, Parts(i, offset)[1]), SumAreas(img, Parts(i, offset)[2])>>]

Init ==
    /\ image = NewImage
    /\ fingerprint = <<>>
    /\ rows = <<>> /\ cleared = <<>>

Reset ==
    /\ image' = NewImage
    /\ fingerprint' = <<>>
    /\ rows' = <<>> /\ cleared' = <<>>

\* The first row of the window that the last row of the image completes.
LastOffsetPlusOne(img) == img.num_rows - MaxFilterWidth + 1
LastOffset(img) == img.num_rows - MaxFilterWidth

Consume(features) ==
    /\ Len(rows) < MaxTotal
    /\ image' = AddRow(image, features)
    /\ fingerprint' =
          IF image'.num_rows >= MaxFilterWidth
            THEN Append(fingerprint, CalculateSubfingerprint(image', LastOffset(image')))
            ELSE fingerprint
    /\ rows' = Append(rows, features)
    /\ UNCHANGED cleared

\* The image stays: the next row gives an item at once.
ClearFingerprint ==
    /\ fingerprint' = <<>>
    /\ cleared' = cleared \o fingerprint
    /\ UNCHANGED <<image, rows>>

Next ==
    \/ Reset
    \/ \E features \in [0 .. COLUMNS - 1 -> Int] : Consume(features)
    \/ ClearFingerprint

Spec == Init /\ [][Next]_vars

-----------------------------------------------------------------------------
\* What Area stands for: the sum of the cells themselves.
CellSum(rects) ==
    MapThenSumSet(LAMBDA cell : rows[cell[1] + 1][cell[2]], UNION {Cells(r) : r \in rects})

\* Whenever it was cleared, the fingerprint is the one of the whole stream,
\* computed from the rows themselves: the items depend on nothing that the
\* image has forgotten or kept from rows it has overwritten.
ItemsOfWholeStream ==
    cleared \o fingerprint =
        [k \in 1 .. Max({0, Len(rows) - MaxFilterWidth + 1}) |->
            [i \in DOMAIN Classifiers |->
                <<CellSum(Parts(i, k - 1)[1]), CellSum(Parts(i, k - 1)[2])>>]]

\* The assertions of Area are enough: an area they allow is the sum of the
\* cells, up to the moment before one of its boundaries is overwritten.
AreaIsSum ==
    \A r1, r2 \in 0 .. image.num_rows, c1, c2 \in 0 .. COLUMNS :
        AreaAllowed(image, r1, c1, r2, c2) =>
            Area(image, r1, c1, r2, c2) = CellSum({<<r1, c1, r2, c2>>})

\* No call of Area that the last item took could have failed an assertion:
\* the window never reaches a row that was overwritten.
AssertionsHold ==
    image.num_rows >= MaxFilterWidth =>
        \A i \in DOMAIN Classifiers :
            \A r \in Parts(i, LastOffset(image))[1] \cup Parts(i, LastOffset(image))[2] :
                AreaAllowed(image, r[1], r[2], r[3], r[4])
=============================================================================
