SPECIFICATION EmbedSpec
CONSTANTS
  None = None
  e1 = e1
  AVSources = 2
  AVLimit = 4
  AVReserve = 1
  AVBodies <- MCBodies
  Malformed = Malformed
  Foreign = Foreign
  Embeds = {e1}
  EmbedItems <- MCEmbedItems
  EmbedKinds <- MCEmbedKinds
  Margin = 2
  MinLife = 1
  NormalTTL = 2
  FallbackTTL = 1
  MaxEmbedTime = 4
INVARIANTS
  NoSilentVideo
