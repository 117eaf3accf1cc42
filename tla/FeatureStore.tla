---------------------------- MODULE FeatureStore ----------------------------
(***************************************************************************)
(* PointInTimeFeatureStore: the feature vectors of one symbol in order of  *)
(* time.  A vector carries, beside its time, the newest time among the     *)
(* candles it was computed from (seen), which the code does not record.    *)
(***************************************************************************)
EXTENDS DataQuality

None == [time |-> -1, seen |-> -1]

\* Variant: the sort is forgotten.
PutFeaturesUnsorted(vectors, vector) == Append(vectors, vector)

\* put_features: append and sort.
PutFeatures(vectors, vector) == ByTime(Append(vectors, vector))

\* get_latest_features
LatestFeatures(vectors) == IF vectors = << >> THEN None ELSE Last(vectors)

\* get_features_as_of: the last vector that is early enough.
FeaturesAsOf(vectors, t) ==
  LET valid == {i \in DOMAIN vectors : vectors[i].time <= t}
  IN  IF valid = {} THEN None ELSE vectors[Max(valid)]
=============================================================================
