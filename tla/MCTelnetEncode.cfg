\* Encoder against the reference over all short argument lists.
CONSTANTS
  ChunkCap = 3
  ArgBytes = {1, 255}
  MaxArgs = 6
SPECIFICATION Spec
INVARIANTS ChunksFitBuffer EncodedAsReference
