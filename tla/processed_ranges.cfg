CONSTANT Ids <- MCIds
CONSTANT Probes <- MCProbes
SPECIFICATION Spec
INVARIANT RangesCompact
INVARIANT ContainsExact
