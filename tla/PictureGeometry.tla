--------------------------- MODULE PictureGeometry ---------------------------
(***************************************************************************)
(* What ImagePreprocessor makes of one decoded picture                     *)
(* (src/src/mdrack/ingestion/image_preprocessing.py): the EXIF turn, the   *)
(* compositing over white, the three resizing geometries and the budgets,  *)
(* and what it reads from the container of an image.                       *)
(*                                                                         *)
(* A picture is [w, h, px]: its width, its height and its pixels row after *)
(* row, each [v, a], one colour channel and the opacity; the code treats   *)
(* the three channels alike.  Fractions are kept exactly, as integers over *)
(* a common denominator, where the code uses floating point.               *)
(***************************************************************************)
EXTENDS Integers, Sequences, FiniteSets, FiniteSetsExt, SequencesExt

Lesser(a, b) == IF a <= b THEN a ELSE b
Greater(a, b) == IF a >= b THEN a ELSE b
CeilDiv(a, b) == (a + b - 1) \div b
Total(S, f(_)) == FoldSet(LAMBDA x, acc : acc + f(x), 0, S)

(***************************************************************************)
(* Policies and recipes.                                                   *)
(***************************************************************************)
Geometries == {"full-frame-bilinear", "fit-center-pad-bicubic",
               "native-dyn-size-source-rgb"}

\* A policy holds eight budgets, all of them positive.
ValidPolicy(policy) == \A b \in DOMAIN policy : policy[b] >= 1

\* The fields of a recipe that belong to one geometry, and to no other.
GeometryFields(geometry) ==
    CASE geometry = "full-frame-bilinear" ->
            [pad_style |-> "none", kernel |-> "not-used", owner |-> "pinned-mtmd-fixed-size"]
      [] geometry = "fit-center-pad-bicubic" ->
            [pad_style |-> "center", kernel |-> "keys-a-minus-0.5-antialiased-v1",
             owner |-> "pinned-mtmd-fixed-size"]
      [] geometry = "native-dyn-size-source-rgb" ->
            [pad_style |-> "native", kernel |-> "native-owned",
             owner |-> "pinned-mtmd-dyn-size"]

ValidRecipe(recipe) ==
    /\ recipe.width >= 1 /\ recipe.height >= 1
    /\ recipe.geometry \in Geometries
    /\ LET fields == GeometryFields(recipe.geometry) IN
       /\ recipe.pad_style = fields.pad_style
       /\ recipe.kernel = fields.kernel
       /\ recipe.geometry = "native-dyn-size-source-rgb" => recipe.owner = fields.owner
    /\ recipe.owner \in {"pinned-mtmd-fixed-size", "pinned-mtmd-dyn-size"}

(***************************************************************************)
(* The EXIF turn: rows and columns are taken by slices of the pixel list.  *)
(***************************************************************************)
Row(p, y) == SubSeq(p.px, y * p.w + 1, (y + 1) * p.w)
\* pixels[x::width]
Column(p, x) == [y \in 1 .. p.h |-> p.px[(y - 1) * p.w + x + 1]]
JoinRows(row(_), n) == FlattenSeq([k \in 1 .. n |-> row(k - 1)])

OrientedSideways(p, orientation) ==
    LET line(x) == CASE orientation = 5 -> Column(p, x)
                     [] orientation = 6 -> Reverse(Column(p, x))
                     [] orientation = 7 -> Reverse(Column(p, p.w - 1 - x))
                     [] orientation = 8 -> Column(p, p.w - 1 - x)
    IN [w |-> p.h, h |-> p.w, px |-> JoinRows(line, p.w)]

ApplyOrientation(p, orientation) ==
    CASE orientation = 1 -> p
      [] orientation = 2 -> [p EXCEPT !.px = JoinRows(LAMBDA y : Reverse(Row(p, y)), p.h)]
      [] orientation = 3 -> [p EXCEPT !.px = Reverse(@)]
      [] orientation = 4 -> [p EXCEPT !.px = JoinRows(LAMBDA y : Row(p, p.h - 1 - y), p.h)]
      [] OTHER -> OrientedSideways(p, orientation)

(***************************************************************************)
(* Opacity.                                                                *)
(***************************************************************************)
HasAlpha(p) == \E k \in DOMAIN p.px : p.px[k].a # 255

CompositePixel(q) ==
    IF q.a = 255 THEN q
    ELSE [v |-> (q.v * q.a + 255 * (255 - q.a) + 127) \div 255, a |-> 255]

CompositeWhite(p) == [p EXCEPT !.px = [k \in DOMAIN p.px |-> CompositePixel(p.px[k])]]

\* _pixels_to_rgb drops the opacity.
PixelsToRgb(p) == [w |-> p.w, h |-> p.h, px |-> [k \in DOMAIN p.px |-> p.px[k].v]]

(***************************************************************************)
(* Bilinear resizing to the full frame.  A position on an axis is a        *)
(* numerator over 2 * target.                                              *)
(***************************************************************************)
LegacyAxisCorner(index, target, source) ==
    LET position == Greater(0, Lesser(2 * index * source, (source - 1) * 2 * target))
        left == position \div (2 * target)
    IN [left |-> left, right |-> Lesser(left + 1, source - 1),
        frac |-> position % (2 * target)]

LegacyAxis(index, target, source) ==
    LET position == Greater(0, Lesser((2 * index + 1) * source - target,
                                      (source - 1) * 2 * target))
        left == position \div (2 * target)
    IN [left |-> left, right |-> Lesser(left + 1, source - 1),
        frac |-> position % (2 * target)]

LegacyBlend(a, b, c, d, fx, dx, fy, dy) ==
    LET top == a * dx + (b - a) * fx
        bottom == c * dx + (d - c) * fx
    IN (2 * (top * dy + (bottom - top) * fy) + dx * dy) \div (2 * dx * dy)

ResizeLegacyBilinear(p, tw, th) ==
    LET at(x, y) == p.px[y * p.w + x + 1].v
        value(k) ==
            LET X == LegacyAxis((k - 1) % tw, tw, p.w)
                Y == LegacyAxis((k - 1) \div tw, th, p.h)
            IN LegacyBlend(at(X.left, Y.left), at(X.right, Y.left),
                           at(X.left, Y.right), at(X.right, Y.right),
                           X.frac, 2 * tw, Y.frac, 2 * th)
    IN [w |-> tw, h |-> th, px |-> [k \in 1 .. tw * th |-> value(k)]]

(***************************************************************************)
(* Bicubic resizing.  The distance of a source pixel from the centre of a  *)
(* target pixel is p over q == 2 * max(source, target), the weight of the  *)
(* Keys kernel with a = -1/2 is Cubic(p, q) over 2 * q^3.                  *)
(***************************************************************************)
Cubic(p, q) ==
    IF p < q THEN 3 * p * p * p - 5 * p * p * q + 2 * q * q * q
    ELSE IF p < 2 * q THEN 5 * p * p * q - p * p * p - 8 * p * q * q + 4 * q * q * q
    ELSE 0

AbsOf(n) == IF n < 0 THEN -n ELSE n

\* The weights of the source pixels, a function on the indices with a weight
\* other than 0; the nearest pixel when there are none.
FilterWeights(index, target, source) ==
    LET q == 2 * Greater(source, target)
        distance(k) == AbsOf(2 * target * k - (2 * index + 1) * source + target)
        weight(k) == Cubic(distance(k), q)
        used == {k \in 0 .. source - 1 : weight(k) # 0}
    IN IF used = {} \/ Total(used, weight) = 0
       THEN LET c == ((2 * index + 1) * source) \div (2 * target)
            IN [k \in {Lesser(source - 1, Greater(0, c))} |-> 1]
       ELSE [k \in used |-> weight(k)]

ClampByte(n) == Greater(0, Lesser(255, n))

ResizeBicubic(p, tw, th) ==
    LET value(k) ==
            LET X == FilterWeights((k - 1) % tw, tw, p.w)
                Y == FilterWeights((k - 1) \div tw, th, p.h)
                wx(x) == X[x]
                wy(y) == Y[y]
                line(x) == X[x] * Total(DOMAIN Y, LAMBDA y : Y[y] * p.px[y * p.w + x + 1].v)
                sum == Total(DOMAIN X, line)
                whole == Total(DOMAIN X, wx) * Total(DOMAIN Y, wy)
            IN ClampByte((2 * sum + whole) \div (2 * whole))
    IN [w |-> tw, h |-> th, px |-> [k \in 1 .. tw * th |-> value(k)]]

\* The picture scaled to fit the frame: the axis that limits the scale fills
\* its side, the other one is rounded up.
FittedSize(w, h, tw, th) ==
    IF tw * h <= th * w
    THEN [w |-> tw, h |-> Lesser(th, Greater(1, CeilDiv(h * tw, w)))]
    ELSE [w |-> Lesser(tw, Greater(1, CeilDiv(w * th, h))), h |-> th]

FitPadding(fit, tw, th) == [x |-> (tw - fit.w) \div 2, y |-> (th - fit.h) \div 2]

ResizeSelected(p, tw, th) ==
    LET fit == FittedSize(p.w, p.h, tw, th)
        resized == IF fit.w = p.w /\ fit.h = p.h THEN PixelsToRgb(p)
                   ELSE ResizeBicubic(p, fit.w, fit.h)
        pad == FitPadding(fit, tw, th)
        value(k) ==
            LET x == ((k - 1) % tw) - pad.x
                y == ((k - 1) \div tw) - pad.y
            IN IF x \in 0 .. fit.w - 1 /\ y \in 0 .. fit.h - 1
               THEN resized.px[y * fit.w + x + 1] ELSE 0
    IN [w |-> tw, h |-> th, px |-> [k \in 1 .. tw * th |-> value(k)]]

(***************************************************************************)
(* ImagePreprocessor.prepare after the decoder: budgets in the order they  *)
(* are checked, then the picture.  A PNG of w * h pixels has at least the  *)
(* 33 bytes of its header; its length is left to the policy's choice of    *)
(* max_prepared_bytes, so encodedFits says whether it is within budget.    *)
(***************************************************************************)
WithinPrepared(w, h, policy) ==
    /\ w <= policy.max_prepared_width
    /\ h <= policy.max_prepared_height
    /\ w * h <= policy.max_pixels
    /\ w * h * 3 <= policy.max_prepared_rgb_bytes

SizeError(w, h, policy) ==
    IF w < 1 \/ h < 1 \/ w > policy.max_dimension \/ h > policy.max_dimension
    THEN "image_dimensions_too_large"
    ELSE IF w * h > policy.max_pixels THEN "image_pixels_too_large"
    ELSE IF w * h * 4 > policy.max_decoded_bytes THEN "image_decoded_too_large"
    ELSE "none"

Refused(code) == [ok |-> FALSE, error |-> code]

Prepared(p, orientation, recipe, policy, encodedFits) ==
    LET shown == ApplyOrientation(p, orientation)
        opaque == IF HasAlpha(shown) THEN CompositeWhite(shown) ELSE shown
        native == recipe.geometry = "native-dyn-size-source-rgb"
        rgb == CASE native -> PixelsToRgb(opaque)
                 [] recipe.geometry = "fit-center-pad-bicubic" ->
                        ResizeSelected(opaque, recipe.width, recipe.height)
                 [] OTHER -> ResizeLegacyBilinear(opaque, recipe.width, recipe.height)
    IN IF orientation \notin 1 .. 8 THEN Refused("image_decode_failed")
       ELSE IF SizeError(p.w, p.h, policy) # "none" THEN Refused(SizeError(p.w, p.h, policy))
       ELSE IF native /\ ~WithinPrepared(shown.w, shown.h, policy)
            THEN Refused("image_prepared_too_large")
       ELSE IF ~encodedFits THEN Refused("image_prepared_too_large")
       ELSE [ok |-> TRUE, picture |-> rgb]

\* validate_prepared: an image handed in as already prepared.  It is [fits,
\* rgb, header, decodes, decoded, orientation]: whether it is within
\* max_prepared_bytes, whether its header is one of an opaque PNG, the size
\* the header names, whether the decoder can read it, the size it finds and
\* the orientation.  The decoder refuses what is beyond its own budgets, and
\* every refusal of the decoder is "image_prepared_invalid".
ValidatePrepared(image, recipe, policy) ==
    LET native == recipe.geometry = "native-dyn-size-source-rgb"
        decodable == image.decodes /\ SizeError(image.decoded.w, image.decoded.h, policy) = "none"
        asExpected == /\ ~native => image.header = [w |-> recipe.width, h |-> recipe.height]
                      /\ image.decoded = image.header /\ image.orientation = 1
    IN IF ~image.fits THEN "image_prepared_too_large"
       ELSE IF ~image.rgb THEN "image_prepared_invalid"
       ELSE IF native /\ ~WithinPrepared(image.header.w, image.header.h, policy) THEN "image_prepared_too_large"
       ELSE IF ~decodable \/ ~asExpected THEN "image_prepared_invalid"
       ELSE "none"

(***************************************************************************)
(* Reference definitions the properties are stated with.                   *)
(***************************************************************************)
\* Where the EXIF standard shows the stored pixel (x, y) of a w x h picture:
\* 2 mirrors the columns, 3 turns by half, 4 mirrors the rows, 5 transposes,
\* 6 turns clockwise, 7 transposes along the other diagonal, 8 turns back.
ShownAt(x, y, w, h, orientation) ==
    CASE orientation = 1 -> <<x, y>>
      [] orientation = 2 -> <<w - 1 - x, y>>
      [] orientation = 3 -> <<w - 1 - x, h - 1 - y>>
      [] orientation = 4 -> <<x, h - 1 - y>>
      [] orientation = 5 -> <<y, x>>
      [] orientation = 6 -> <<h - 1 - y, x>>
      [] orientation = 7 -> <<h - 1 - y, w - 1 - x>>
      [] orientation = 8 -> <<y, w - 1 - x>>

Mirrored(p) ==
    [p EXCEPT !.px = [k \in DOMAIN p.px |->
        p.px[((k - 1) \div p.w) * p.w + (p.w - 1 - ((k - 1) % p.w)) + 1]]]

Extremes(p) == LET all == {p.px[k].v : k \in DOMAIN p.px} IN <<Min(all), Max(all)>>

\* A picture is shown the way its EXIF tag says, whatever its shape.
TurnRight(p) ==
    \A orientation \in 1 .. 8 :
        LET turned == ApplyOrientation(p, orientation) IN
        \A x \in 0 .. p.w - 1, y \in 0 .. p.h - 1 :
            LET at == ShownAt(x, y, p.w, p.h, orientation)
            IN turned.px[at[2] * turned.w + at[1] + 1] = p.px[y * p.w + x + 1]

AsPrepared(size) ==
    [fits |-> TRUE, rgb |-> TRUE, header |-> size, decodes |-> TRUE, decoded |-> size, orientation |-> 1]

\* A prepared picture has the recipe's size and stays within the budgets;
\* resizing neither shifts the picture to a side (a mirrored picture gives the
\* mirrored result wherever the padding is even) nor invents shades in the
\* full-frame geometry; handed in again as already prepared it is valid,
\* except that a recipe may ask for a size the decoder's budgets refuse.
PreparedRight(p, recipe, policy) ==
    \A upright \in {Prepared(p, 1, recipe, policy, TRUE)}, mirrored \in {Prepared(p, 2, recipe, policy, TRUE)} :
        upright.ok =>
            LET native == recipe.geometry = "native-dyn-size-source-rgb"
                fit == FittedSize(p.w, p.h, recipe.width, recipe.height)
                even == (recipe.width - fit.w) % 2 = 0
                shades == Extremes(CompositeWhite(p))
                result == upright.picture
                size == [w |-> result.w, h |-> result.h]
            IN  /\ native => WithinPrepared(size.w, size.h, policy)
                /\ ~native => size = [w |-> recipe.width, h |-> recipe.height]
                /\ \A k \in DOMAIN result.px : result.px[k] \in 0 .. 255
                /\ recipe.geometry = "full-frame-bilinear" =>
                       \A k \in DOMAIN result.px : shades[1] <= result.px[k] /\ result.px[k] <= shades[2]
                /\ (recipe.geometry = "fit-center-pad-bicubic" => even) => mirrored.picture = Mirrored(result)
                /\ ValidatePrepared(AsPrepared(size), recipe, policy) = "none"
                      <=> native \/ SizeError(recipe.width, recipe.height, policy) = "none"

(***************************************************************************)
(* The container of an image: the structural checks and the search for the *)
(* EXIF orientation, before and after a system codec decodes it.           *)
(*                                                                         *)
(* A container is [media, magic, blocks, declared]: its kind, whether its  *)
(* first bytes are the ones of that kind, its blocks in order and, for     *)
(* WebP, the number of blocks the RIFF header declares.  A block is        *)
(* [kind, fits, exif]: its chunk kind or JPEG marker, whether the length   *)
(* it states stays within the file (only the last block can fail to), and  *)
(* the TIFF structure it carries; an APP1 segment may carry something else *)
(* than EXIF.  Bytes between JPEG segments are skipped and have no block.  *)
(***************************************************************************)
\* The blocks a walk reads: up to the first that does not fit or that ends it.
FirstIndex(s, Test(_)) ==
    IF \E i \in DOMAIN s : Test(s[i])
    THEN CHOOSE i \in DOMAIN s : Test(s[i]) /\ \A j \in 1 .. i - 1 : ~Test(s[j])
    ELSE 0

(***************************************************************************)
(* _container_looks_complete.                                              *)
(***************************************************************************)
PngComplete(c) ==
    LET stop == FirstIndex(c.blocks, LAMBDA b : ~b.fits \/ b.kind = "IEND")
    IN stop # 0 /\ c.blocks[stop].fits

\* Every declared block fits; the declared length is within the file.
WebpComplete(c) ==
    /\ c.declared <= Len(c.blocks)
    /\ \A i \in 1 .. c.declared : c.blocks[i].fits

\* The markers before the scan fit, a scan follows and an end marker after it.
JpegComplete(c) ==
    LET scan == FirstIndex(c.blocks,
                    LAMBDA b : b.kind = "SOS" \/ (b.kind \notin {"SOI", "EOI"} /\ ~b.fits))
    IN /\ scan # 0
       /\ c.blocks[scan].kind = "SOS"
       /\ \E i \in scan + 1 .. Len(c.blocks) : c.blocks[i].kind = "EOI"

LooksComplete(c) ==
    /\ c.magic
    /\ CASE c.media = "image/png" -> PngComplete(c)
         [] c.media = "image/webp" -> WebpComplete(c)
         [] c.media = "image/jpeg" -> JpegComplete(c)
         [] OTHER -> FALSE

(***************************************************************************)
(* _tiff_orientation: the first entry with the orientation tag decides;    *)
(* anything malformed means "as stored".                                   *)
(***************************************************************************)
TiffOrientation(t) ==
    LET at == FirstIndex(t.entries, LAMBDA e : e.tag = "orientation")
        entry == t.entries[at]
    IN IF ~t.header \/ ~t.fits \/ at = 0 THEN 1
       ELSE IF entry.amount # 1 \/ entry.kind \notin {3, 4} THEN 1
       ELSE IF entry.value \in 1 .. 8 THEN entry.value ELSE 1

(***************************************************************************)
(* _jpeg_exif, _png_exif, _webp_exif: the first block that carries EXIF    *)
(* before the walk stops.                                                  *)
(***************************************************************************)
ExifKind(media) ==
    CASE media = "image/jpeg" -> "APP1" [] media = "image/png" -> "eXIf"
      [] media = "image/webp" -> "EXIF"
StopKind(media) ==
    CASE media = "image/jpeg" -> "SOS" [] media = "image/png" -> "IEND"
      [] media = "image/webp" -> "none"

ExifBlock(c) ==
    LET stop == FirstIndex(c.blocks,
            LAMBDA b : \/ b.kind \notin {"SOI", "EOI"} /\ ~b.fits
                       \/ b.kind = StopKind(c.media)
                       \/ b.kind = ExifKind(c.media) /\ (c.media = "image/jpeg" => b.exif.present))
    IN IF stop # 0 /\ c.blocks[stop].fits /\ c.blocks[stop].kind = ExifKind(c.media)
       THEN stop ELSE 0

ExifOrientation(c) ==
    IF ~c.magic \/ c.media \notin {"image/jpeg", "image/png", "image/webp"} THEN 1
    ELSE LET at == ExifBlock(c)
         IN IF at = 0 THEN 1 ELSE TiffOrientation(c.blocks[at].exif)

\* What follows the part of a complete JPEG or PNG that was checked cannot
\* turn the picture.
TrailerIgnored(c, trailer) ==
    (LooksComplete(c) /\ c.media # "image/webp") =>
        ExifOrientation([c EXCEPT !.blocks = @ \o trailer]) = ExifOrientation(c)

=============================================================================
