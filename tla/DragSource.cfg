SPECIFICATION Spec
CONSTANTS
  Addresses = {a1, a2, a3, a4}
  MaxDepth = 2
  MaxHeld = 1
  PngFormats <- MCPngFormats
  Requests <- MCRequests
SYMMETRY Symmetry
INVARIANTS
  RefsAreHeld
  RenderedAsOffered
