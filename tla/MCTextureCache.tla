--------------------------- MODULE MCTextureCache ---------------------------
EXTENDS TextureCache, TLC

\* A face of Link, a texture of the scene, and one of a room with its palette
\* in the scene's file.
MCTextures ==
  {[data |-> 6, pal |-> 6, at |-> 0], [data |-> 2, pal |-> NoPalette, at |-> 0],
   [data |-> 3, pal |-> 2, at |-> 0]}
SceneSymmetry == Permutations(Scenes)
=============================================================================
