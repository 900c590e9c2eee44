----------------------------- MODULE Rotations ------------------------------
(***************************************************************************)
(* The numbers of nioc::geometry, exactly: the 24 unit quaternions with    *)
(* half-integer coefficients, which turn integer vectors into integer      *)
(* vectors, and their Modified Rodrigues Parameters, which are thirds. A   *)
(* quaternion keeps twice its coefficients, an MRP three times its         *)
(* coordinates, so that everything here is an integer.                     *)
(***************************************************************************)
EXTENDS Integers, FiniteSets

Axes == {"x", "y", "z"}
Vectors(S) == [Axes -> S]

Plus(a, b) == [i \in Axes |-> a[i] + b[i]]
Times(k, a) == [i \in Axes |-> k * a[i]]
Over(a, k) == [i \in Axes |-> a[i] \div k]
Dot(a, b) == a.x * b.x + a.y * b.y + a.z * b.z
Cross(a, b) == [x |-> a.y * b.z - a.z * b.y,
                y |-> a.z * b.x - a.x * b.z,
                z |-> a.x * b.y - a.y * b.x]
Origin == [i \in Axes |-> 0]

-----------------------------------------------------------------------------
(* Quaternions, as Eigen computes with them.                               *)

One == [vec |-> Origin, w |-> 2]
Norm2(q) == Dot(q.vec, q.vec) + q.w * q.w
IsUnit(q) == Norm2(q) = 4
Scaled(k, q) == [vec |-> Times(k, q.vec), w |-> k * q.w]
Units == LET signed(k) == [vec : Vectors({-k, 0, k}), w : {-k, 0, k}]
         IN  {q \in signed(1) \cup signed(2) : IsUnit(q)}

\* normalize() finds the unit quaternion along q; zero stays zero.
Normalized(q) == LET along(u) == Dot(q.vec, u.vec) + q.w * u.w
                 IN  IF Norm2(q) \in {0, 4} THEN q
                     ELSE CHOOSE u \in Units : along(u) > 0 /\ along(u) * along(u) = 4 * Norm2(q)

Conjugate(q) == [q EXCEPT !.vec = Times(-1, @)]
Product(a, b) == [vec |-> Over(Plus(Plus(Times(a.w, b.vec), Times(b.w, a.vec)),
                                    Cross(a.vec, b.vec)), 2),
                  w |-> (a.w * b.w - Dot(a.vec, b.vec)) \div 2]
Turned(q, p) == LET c == Cross(q.vec, p)
                IN  Plus(p, Over(Plus(Times(q.w, c), Cross(q.vec, c)), 2))
\* q and -q are one rotation.
SameTurn(a, b) == a = b \/ a = Scaled(-1, b)

-----------------------------------------------------------------------------
(* Rotation3: coordinates tan(angle / 4) * axis. NaN stands for the        *)
(* coordinates a division by zero leaves.                                  *)

NaN == [i \in {} |-> 0]

\* Rotation3(Quaternion): vec / (1 + w) of the normalised quaternion.
FromQuaternion(q) == LET u == Normalized(q)
                     IN  IF u.w = -2 THEN NaN ELSE Over(Times(3, u.vec), 2 + u.w)

\* Mrp3::inverse.
Opposite(m) == IF m = NaN THEN NaN ELSE Times(-1, m)

\* Mrp3::operator*, with the factors of three of both sides multiplied out.
Combined(l, r) ==
  LET l2 == Dot(l, l)
      r2 == Dot(r, r)
      vec == Plus(Plus(Times(3 * (9 - r2), l), Times(3 * (9 - l2), r)),
                  Times(18, Cross(l, r)))
      scale == 81 + l2 * r2 - 18 * Dot(l, r)
  IN  IF scale = 0 THEN NaN ELSE Over(Times(3, vec), scale)
\* The factors the other way round.
CompositionBackwards(l, r) == IF NaN \in {l, r} THEN NaN ELSE Combined(r, l)
Composition(l, r) == IF NaN \in {l, r} THEN NaN ELSE Combined(l, r)

\* The rotation coordinates stand for: the quaternion they come from, and
\* the shadow of the opposite quaternion.
Denotes(m, q) == m \in {FromQuaternion(q), FromQuaternion(Scaled(-1, q))}
=============================================================================
